---- MODULE Spec2Model ----
(***************************************************************************)
(* Keyring and encrypted storage of the Banana journaling app.             *)
(*                                                                         *)
(* Every handler of lib/e2ee/keyring.ts and lib/e2ee/encrypted-storage.ts  *)
(* is a step function over a frame: one step is the synchronous code up to *)
(* and including the next awaited I/O call (AsyncStorage, SecureStore,     *)
(* Supabase).  An action runs one call of a handler to completion.         *)
(*                                                                         *)
(* Cryptography is symbolic: AES-GCM, scrypt and HMAC-SHA256 are free      *)
(* constructors (no collisions, no forgery); hex encoding of keys, nonces  *)
(* and salts is computed digit by digit.                                   *)
(***************************************************************************)
EXTENDS Integers, Sequences, FiniteSets, TLC

VARIABLES
  mem,          \* per device: the module-level masterKey / bucketKey
  secureStore,  \* per device: expo-secure-store items
  asyncStorage, \* per device: AsyncStorage items (local plaintext cache)
  remote,       \* the Supabase tables of the one account
  budget,       \* number of handler calls the behaviour may still make
  last,         \* what the last call did and returned (observation only)
  history,      \* the calls made so far, oldest first (observation only)
  generated,    \* the keys and password of the successful setup (observation only)
  syncStart,    \* the program state when the first sync began (observation only)
  running       \* the calls in flight on the event loop, each at its await

vars == <<mem, secureStore, asyncStorage, remote, budget, last, history, generated, syncStart,
          running>>

(***************************************************************************)
(* Bounds                                                                  *)
(***************************************************************************)
MaxKeyringCalls == 3 \* handler calls in one behaviour of SpecKeyring
MaxEntriesCalls == 3 \* handler calls in one behaviour of SpecEntries
MaxSharedCalls == 2  \* handler calls in one behaviour of SpecSharedEntries
MaxHabitsCalls == 3  \* handler calls in one behaviour of SpecHabits
MaxLogsCalls == 3    \* handler calls in one behaviour of SpecLogs
MaxSyncCalls == 3    \* handler calls in one behaviour of SpecSync
MaxKill == 7         \* steps of a sync after which the process may be killed
MaxLoadsCalls == 3   \* handler calls in one behaviour of SpecLoads
MaxRestoreCalls == 3 \* handler calls in one behaviour of SpecRestore
MaxRestartCalls == 3 \* handler calls in one behaviour of SpecRestart
MaxWritesCalls == 3  \* handler calls in one behaviour of SpecWrites
MaxForeignCalls == 2 \* handler calls in one behaviour of SpecForeignRows
MaxLegacyCalls == 2  \* handler calls in one behaviour of SpecLegacy
MaxTextLen == 2      \* code units in a string value of a payload of SpecRoundTrip
MaxLocalFirstCalls == 3   \* writes begun in one behaviour of SpecLocalFirst
MaxReadBackCalls == 3     \* calls in one behaviour of SpecReadBack
MaxInFlight == 2     \* calls started in one behaviour of the specifications of the event loop
MaxFail  == 3        \* the last remote call of one handler call that may fail

(***************************************************************************)
(* Program constants                                                       *)
(***************************************************************************)
SCRYPT_N      == 32768
SCRYPT_R      == 8
SCRYPT_P      == 1
SCRYPT_DKLEN  == 32
NONCE_LENGTH  == 12
KEY_LENGTH    == 32
BUCKET_HEX    == 32
MAX_PER_DAY   == 2

MASTER_KEY_CACHE == "banana_master_key"
BUCKET_KEY_CACHE == "banana_bucket_key"
STORAGE_KEYS == [HABITS |-> "@habits", ENTRIES |-> "@entries", LOGS |-> "@habit_logs"]

(***************************************************************************)
(* Values                                                                  *)
(***************************************************************************)
None      == [none |-> TRUE]                 \* null / undefined
Str(s)    == [str |-> s]                     \* a JavaScript string that may also be null
Bytes(b)  == [bytes |-> b]                   \* a Uint8Array
Threw(e)  == [threw |-> e]                   \* a thrown exception
IsThrow(v) == DOMAIN v = {"threw"}

Devices   == {"A", "B"}
UserId    == "u1"
Passwords == {"pw-right", "pw-wrong"}
RandomSeeds == {16, 171}

Truthy(v) == v # None /\ v # Str("")

(***************************************************************************)
(* Hex utilities (@noble/ciphers/utils bytesToHex / hexToBytes)            *)
(***************************************************************************)
HexChars == "0123456789abcdef"

HexDigit(n) == SubSeq(HexChars, n + 1, n + 1)

HexValue(c) ==
  IF \E n \in 0..15 : HexDigit(n) = c
  THEN CHOOSE n \in 0..15 : HexDigit(n) = c
  ELSE -1

IsCipher(b) == DOMAIN b = {"aead", "key", "nonce"}
IsMac(b)    == DOMAIN b = {"hmac", "data"}

RECURSIVE BytesToHexStr(_)
BytesToHexStr(bytes) ==
  IF bytes = <<>> THEN ""
  ELSE HexDigit(Head(bytes) \div 16) \o HexDigit(Head(bytes) % 16) \o BytesToHexStr(Tail(bytes))

\* Byte strings produced by AES-GCM and HMAC are opaque terms; their hex
\* form is the term tagged as hex text, cut to the number of digits kept.
bytesToHex(bytes) ==
  IF IsCipher(bytes) \/ IsMac(bytes) THEN [hexOf |-> bytes, digits |-> -1]
  ELSE Str(BytesToHexStr(bytes.bytes))

RECURSIVE HexStrToBytes(_)
HexStrToBytes(hex) ==
  IF hex = "" THEN Bytes(<<>>)
  ELSE LET hi == HexValue(SubSeq(hex, 1, 1))
           lo == HexValue(SubSeq(hex, 2, 2))
           rest == HexStrToBytes(SubSeq(hex, 3, Len(hex)))
       IN IF hi < 0 \/ lo < 0 \/ IsThrow(rest) THEN Threw("hex")
          ELSE Bytes(<<hi * 16 + lo>> \o rest.bytes)

IsHexTerm(h) == DOMAIN h = {"hexOf", "digits"}

hexToBytes(hex) ==
  IF IsHexTerm(hex) THEN (IF hex.digits = -1 THEN hex.hexOf ELSE Threw("hex"))
  ELSE IF DOMAIN hex # {"str"} THEN Threw("hex")
  ELSE IF Len(hex.str) % 2 # 0 THEN Threw("hex")
  ELSE HexStrToBytes(hex.str)

(***************************************************************************)
(* Primitive crypto layer (lib/e2ee/crypto.ts)                             *)
(***************************************************************************)
\* randomBytes(n): the k-th draw of a call whose seed is rnd.
randomBytes(n, rnd, k) == Bytes([i \in 1..n |-> (rnd + k) % 256])

deriveKey(password, salt, params) ==
  [scrypt |-> <<password, salt>>,
   N |-> IF "N" \in DOMAIN params THEN params.N ELSE SCRYPT_N,
   r |-> IF "r" \in DOMAIN params THEN params.r ELSE SCRYPT_R,
   p |-> IF "p" \in DOMAIN params THEN params.p ELSE SCRYPT_P,
   dkLen |-> SCRYPT_DKLEN]

\* encrypt draws a fresh nonce: draw k of the call whose seed is rnd.
encrypt(plaintext, key, rnd, k) ==
  LET nonce == randomBytes(NONCE_LENGTH, rnd, k)
  IN [ciphertext |-> [aead |-> plaintext, key |-> key, nonce |-> nonce], nonce |-> nonce]

\* Mutant: decryption that does not authenticate the key and nonce.
decrypt_noAuth(ciphertext, key, nonce) ==
  IF IsCipher(ciphertext) THEN ciphertext.aead ELSE Threw("input")

decrypt(ciphertext, key, nonce) ==
  IF IsThrow(ciphertext) \/ IsThrow(nonce) \/ IsThrow(key) THEN Threw("input")
  ELSE IF IsCipher(ciphertext) /\ ciphertext.key = key /\ ciphertext.nonce = nonce
       THEN ciphertext.aead
       ELSE Threw("auth")

generateMasterKey(rnd, k) == randomBytes(KEY_LENGTH, rnd, k)

generateSalt(rnd, k) == randomBytes(KEY_LENGTH, rnd, k)

(***************************************************************************)
(* Frames: one call of a handler                                           *)
(***************************************************************************)
Bool(b) == [bool |-> b]

NoLocals == [x \in {} |-> None]

\* env.fail: the ordinals of the remote calls of this call that fail;
\* env.rnd: the seed of its random draws; env.fuel: the number of steps
\* after which the process is killed (-1: never).
NewFrame(op, dev, args, env) ==
  [op |-> op, dev |-> dev, args |-> args, env |-> env, pc |-> "start",
   loc |-> NoLocals, nRemote |-> 0, nRand |-> 0, remoteFailed |-> FALSE,
   status |-> "running", ret |-> None, err |-> "", sub |-> None]

Upd(g, f)          == [g |-> g, f |-> f]
Goto(f, pc)        == [f EXCEPT !.pc = pc]
SetLoc(f, name, v) == [f EXCEPT !.loc = (name :> v) @@ @]
Return(g, f, v)    == Upd(g, [f EXCEPT !.status = "returned", !.ret = v])
Throw(g, f, e)     == Upd(g, [f EXCEPT !.status = "threw", !.err = e])
Drew(f, n)         == [f EXCEPT !.nRand = @ + n]

(***************************************************************************)
(* Supabase client: every call is one remote request                       *)
(***************************************************************************)
NetFails(f) == (f.nRemote + 1) \in f.env.fail

Net(f) == [f EXCEPT !.nRemote = @ + 1, !.remoteFailed = @ \/ NetFails(f)]

auth_getUser(f) ==
  [f |-> Net(f), user |-> IF NetFails(f) THEN None ELSE [id |-> UserId]]

\* The unique constraints of the schema: profiles.id is a primary key,
\* entries has unique (owner_id, day_bucket); habits and habit_logs have
\* only their generated id.
UniqueColumns(table) ==
  CASE table = "profiles" -> {"id"}
    [] table = "entries"  -> {"owner_id", "day_bucket"}
    [] OTHER              -> {"id"}

SameOn(a, b, cols) == \A c \in cols : a[c] = b[c]

RowIds(rows) == {rows[i].id : i \in 1..Len(rows)}

\* gen_random_uuid(): an id no row of the table has.
NewId(rows) == CHOOSE n \in 1..(Len(rows) + 1) : n \notin RowIds(rows)

WithId(rows, row) ==
  IF "id" \in DOMAIN row THEN row ELSE ("id" :> NewId(rows)) @@ row

\* The rows that pass every .eq(column, value) filter of a query.
Matching(rows, eqs) ==
  LET pass(row) == \A c \in DOMAIN eqs : row[c] = eqs[c]
  IN SelectSeq(rows, pass)

db_select(g, f, table, eqs) ==
  [f |-> Net(f), error |-> NetFails(f),
   data |-> IF NetFails(f) THEN None ELSE Matching(g.remote[table], eqs)]

\* Mutant: .single() never finds its row.
db_single_noRow(r) == [r EXCEPT !.data = None, !.error = TRUE]

\* .single(): exactly one row, else an error and no data.
db_single(r) ==
  IF r.error THEN r
  ELSE IF Len(r.data) = 1 THEN [r EXCEPT !.data = r.data[1]]
  ELSE [r EXCEPT !.data = None, !.error = TRUE]

db_insert(g, f, table, row) ==
  LET rows == g.remote[table]
      new == WithId(rows, row)
      conflict == \E i \in 1..Len(rows) : SameOn(rows[i], new, UniqueColumns(table))
      error == NetFails(f) \/ conflict
  IN [g |-> IF error THEN g ELSE [g EXCEPT !.remote[table] = Append(rows, new)],
      f |-> Net(f), error |-> error]

db_upsert(g, f, table, row, onConflict) ==
  LET rows == g.remote[table]
      hit == {i \in 1..Len(rows) : SameOn(rows[i], row, onConflict)}
      merged == [i \in 1..Len(rows) |-> IF i \in hit THEN row @@ rows[i] ELSE rows[i]]
  IN [g |-> IF NetFails(f) THEN g
            ELSE IF hit # {} THEN [g EXCEPT !.remote[table] = merged]
            ELSE [g EXCEPT !.remote[table] = Append(rows, WithId(rows, row))],
      f |-> Net(f), error |-> NetFails(f)]

db_update(g, f, table, eqs, fields) ==
  LET rows == g.remote[table]
      merged == [i \in 1..Len(rows) |->
                   IF Matching(<<rows[i]>>, eqs) # <<>> THEN fields @@ rows[i] ELSE rows[i]]
  IN [g |-> IF NetFails(f) THEN g ELSE [g EXCEPT !.remote[table] = merged],
      f |-> Net(f), error |-> NetFails(f)]

db_delete(g, f, table, eqs) ==
  LET keep(row) == Matching(<<row>>, eqs) = <<>>
  IN [g |-> IF NetFails(f) THEN g
            ELSE [g EXCEPT !.remote[table] = SelectSeq(g.remote[table], keep)],
      f |-> Net(f), error |-> NetFails(f)]

\* .maybeSingle(): no row is no error; more than one row is an error.
db_maybeSingle(r) ==
  IF r.error THEN r
  ELSE IF Len(r.data) = 0 THEN [r EXCEPT !.data = None]
  ELSE IF Len(r.data) = 1 THEN [r EXCEPT !.data = r.data[1]]
  ELSE [r EXCEPT !.data = None, !.error = TRUE]

\* fetch(`${SUPABASE_URL}/functions/v1/<name>`, {method: "POST", body}):
\* the remote store receives the body of the request.
functions_post(g, f, name, body) ==
  [g |-> IF NetFails(f) THEN g ELSE [g EXCEPT !.remote[name] = Append(@, body)],
   f |-> Net(f), ok |-> ~NetFails(f)]

(***************************************************************************)
(* expo-secure-store                                                       *)
(***************************************************************************)
SecureStore_getItemAsync(g, dev, key) == g.secureStore[dev][key]

SecureStore_setItemAsync(g, dev, key, value) ==
  [g EXCEPT !.secureStore[dev][key] = value]

SecureStore_deleteItemAsync(g, dev, key) ==
  [g EXCEPT !.secureStore[dev][key] = None]

(***************************************************************************)
(* Keyring (lib/e2ee/keyring.ts)                                           *)
(***************************************************************************)
\* Mutant: the keyring always counts as unlocked.
isKeyringUnlocked_always(g, dev) == TRUE

isKeyringUnlocked(g, dev) == g.mem[dev].masterKey # None

getMasterKey(g, dev) ==
  IF g.mem[dev].masterKey = None THEN Threw("KeyringLocked") ELSE g.mem[dev].masterKey

getBucketKey(g, dev) ==
  IF g.mem[dev].bucketKey = None THEN Threw("KeyringLocked") ELSE g.mem[dev].bucketKey

setupMasterKey(g, f) ==
  LET dev == f.dev
      password == f.args.password
  IN
  CASE f.pc = "start" ->
         LET r == auth_getUser(f)
         IN Upd(g, Goto(SetLoc(r.f, "user", r.user), "gotUser"))
    [] f.pc = "gotUser" ->
         IF f.loc.user = None THEN Throw(g, f, "NotAuthenticated")
         ELSE LET r == db_single(db_select(g, f, "profiles", [id |-> f.loc.user.id]))
              IN Upd(g, Goto(SetLoc(r.f, "existing", r.data), "selected"))
    [] f.pc = "selected" ->
         IF f.loc.existing # None THEN Throw(g, f, "AlreadyConfigured")
         ELSE LET newMasterKey == generateMasterKey(f.env.rnd, f.nRand + 1)
                  newBucketKey == generateMasterKey(f.env.rnd, f.nRand + 2)
                  salt == generateSalt(f.env.rnd, f.nRand + 3)
                  kdfParams == [N |-> 32768, r |-> 8, p |-> 1]
                  kek == deriveKey(password, salt, kdfParams)
                  wm == encrypt(newMasterKey, kek, f.env.rnd, f.nRand + 4)
                  wb == encrypt(newBucketKey, kek, f.env.rnd, f.nRand + 5)
                  r == db_insert(g, Drew(f, 5), "profiles",
                         [id |-> f.loc.user.id,
                          wrapped_master_key |-> bytesToHex(wm.ciphertext),
                          wrapped_master_key_nonce |-> bytesToHex(wm.nonce),
                          wrapped_bucket_key |-> bytesToHex(wb.ciphertext),
                          wrapped_bucket_key_nonce |-> bytesToHex(wb.nonce),
                          kdf_salt |-> bytesToHex(salt),
                          kdf_params |-> kdfParams])
                  f1 == SetLoc(SetLoc(SetLoc(r.f, "error", r.error),
                          "newMasterKey", newMasterKey), "newBucketKey", newBucketKey)
              IN Upd(r.g, Goto(f1, "inserted"))
    [] f.pc = "inserted" ->
         IF f.loc.error THEN Throw(g, f, "SaveProfileFailed")
         ELSE LET g1 == [g EXCEPT !.mem[dev] = [masterKey |-> f.loc.newMasterKey,
                                                bucketKey |-> f.loc.newBucketKey]]
              IN Upd(SecureStore_setItemAsync(g1, dev, MASTER_KEY_CACHE,
                        bytesToHex(f.loc.newMasterKey)), Goto(f, "cachedMaster"))
    [] f.pc = "cachedMaster" ->
         Upd(SecureStore_setItemAsync(g, dev, BUCKET_KEY_CACHE,
                bytesToHex(f.loc.newBucketKey)), Goto(f, "cachedBucket"))
    [] f.pc = "cachedBucket" -> Return(g, f, None)

\* Mutant: the bucket key is always taken to be the master key.
unlock_unwrap_bucketIsMaster(g, dev, profile, kek) ==
  LET mk == decrypt(hexToBytes(profile.wrapped_master_key), kek,
                    hexToBytes(profile.wrapped_master_key_nonce))
  IN IF IsThrow(mk) THEN [g |-> g, threw |-> TRUE]
     ELSE [g |-> [g EXCEPT !.mem[dev] = [masterKey |-> mk, bucketKey |-> mk]], threw |-> FALSE]

\* The body of the try block of unlock up to its first await: the unwrapped
\* keys are assigned one by one, and a throw leaves the earlier assignment.
unlock_unwrap(g, dev, profile, kek) ==
  LET wrappedMasterKey == hexToBytes(profile.wrapped_master_key)
      masterKeyNonce == hexToBytes(profile.wrapped_master_key_nonce)
      mk == decrypt(wrappedMasterKey, kek, masterKeyNonce)
      g1 == [g EXCEPT !.mem[dev].masterKey = mk]
      bk == IF Truthy(profile.wrapped_bucket_key)
            THEN decrypt(hexToBytes(profile.wrapped_bucket_key), kek,
                         hexToBytes(profile.wrapped_bucket_key_nonce))
            ELSE mk
  IN IF IsThrow(mk) THEN [g |-> g, threw |-> TRUE]
     ELSE IF IsThrow(bk) THEN [g |-> g1, threw |-> TRUE]
     ELSE [g |-> [g1 EXCEPT !.mem[dev].bucketKey = bk], threw |-> FALSE]

unlock(g, f) ==
  LET dev == f.dev
      password == f.args.password
  IN
  CASE f.pc = "start" ->
         LET r == auth_getUser(f)
         IN Upd(g, Goto(SetLoc(r.f, "user", r.user), "gotUser"))
    [] f.pc = "gotUser" ->
         IF f.loc.user = None THEN Throw(g, f, "NotAuthenticated")
         ELSE LET r == db_single(db_select(g, f, "profiles", [id |-> f.loc.user.id]))
              IN Upd(g, Goto(SetLoc(SetLoc(r.f, "profile", r.data), "error", r.error),
                             "fetched"))
    [] f.pc = "fetched" ->
         IF f.loc.error \/ f.loc.profile = None THEN Throw(g, f, "NotConfigured")
         ELSE LET profile == f.loc.profile
                  salt == hexToBytes(profile.kdf_salt)
                  kek == deriveKey(password, salt, profile.kdf_params)
                  u == unlock_unwrap(g, dev, profile, kek)
              IN IF IsThrow(salt) THEN Throw(g, f, "hex")
                 ELSE IF u.threw THEN Throw(u.g, f, "IncorrectPassword")
                 ELSE Upd(SecureStore_setItemAsync(u.g, dev, MASTER_KEY_CACHE,
                             bytesToHex(u.g.mem[dev].masterKey)), Goto(f, "cachedMaster"))
    [] f.pc = "cachedMaster" ->
         Upd(SecureStore_setItemAsync(g, dev, BUCKET_KEY_CACHE,
                bytesToHex(g.mem[dev].bucketKey)), Goto(f, "cachedBucket"))
    [] f.pc = "cachedBucket" -> Return(g, f, None)

tryRestoreFromCache(g, f) ==
  LET dev == f.dev
  IN
  CASE f.pc = "start" ->
         Upd(g, Goto(SetLoc(f, "cachedMasterKey",
                  SecureStore_getItemAsync(g, dev, MASTER_KEY_CACHE)), "gotMaster"))
    [] f.pc = "gotMaster" ->
         Upd(g, Goto(SetLoc(f, "cachedBucketKey",
                  SecureStore_getItemAsync(g, dev, BUCKET_KEY_CACHE)), "gotBucket"))
    [] f.pc = "gotBucket" ->
         IF Truthy(f.loc.cachedMasterKey)
         THEN LET mk == hexToBytes(f.loc.cachedMasterKey)
                  g1 == [g EXCEPT !.mem[dev].masterKey = mk]
                  bk == IF Truthy(f.loc.cachedBucketKey)
                        THEN hexToBytes(f.loc.cachedBucketKey) ELSE mk
              IN IF IsThrow(mk) THEN Return(g, f, Bool(FALSE))
                 ELSE IF IsThrow(bk) THEN Return(g1, f, Bool(FALSE))
                 ELSE Return([g1 EXCEPT !.mem[dev].bucketKey = bk], f, Bool(TRUE))
         ELSE Return(g, f, Bool(FALSE))

\* Mutant: lock also empties the secure cache.
lock_clearsCache(g, f) ==
  Return([g EXCEPT !.mem[f.dev] = [masterKey |-> None, bucketKey |-> None],
                   !.secureStore[f.dev] = [k \in {MASTER_KEY_CACHE, BUCKET_KEY_CACHE} |-> None]],
         f, None)

lock(g, f) ==
  Return([g EXCEPT !.mem[f.dev] = [masterKey |-> None, bucketKey |-> None]], f, None)

\* Mutant: clearAll forgets the keys in memory and leaves the secure cache.
clearAll_keepsCache(g, f) ==
  Return([g EXCEPT !.mem[f.dev] = [masterKey |-> None, bucketKey |-> None]], f, None)

clearAll(g, f) ==
  LET dev == f.dev
  IN
  CASE f.pc = "start" ->
         LET g1 == [g EXCEPT !.mem[dev] = [masterKey |-> None, bucketKey |-> None]]
         IN Upd(SecureStore_deleteItemAsync(g1, dev, MASTER_KEY_CACHE), Goto(f, "deletedMaster"))
    [] f.pc = "deletedMaster" ->
         Upd(SecureStore_deleteItemAsync(g, dev, BUCKET_KEY_CACHE), Goto(f, "deletedBucket"))
    [] f.pc = "deletedBucket" -> Return(g, f, None)

(***************************************************************************)
(* JSON text and string encoding                                           *)
(***************************************************************************)
JSON_stringify(v) == [json |-> v]

JSON_parse(text) == IF DOMAIN text = {"json"} THEN text.json ELSE Threw("json")

TextEncoder_encode(text) == [utf8 |-> text]

TextDecoder_decode(bytes) == IF DOMAIN bytes = {"utf8"} THEN bytes.utf8 ELSE [garbled |-> bytes]

encryptString(plaintext, key, rnd, k) ==
  LET e == encrypt(TextEncoder_encode(plaintext), key, rnd, k)
  IN [ciphertext |-> bytesToHex(e.ciphertext), nonce |-> bytesToHex(e.nonce)]

decryptString(ciphertextHex, key, nonceHex) ==
  LET plaintext == decrypt(hexToBytes(ciphertextHex), key, hexToBytes(nonceHex))
  IN IF IsThrow(plaintext) THEN plaintext ELSE TextDecoder_decode(plaintext)

encryptJson(data, key, rnd, k) == encryptString(JSON_stringify(data), key, rnd, k)

decryptJson(ciphertextHex, key, nonceHex) ==
  LET json == decryptString(ciphertextHex, key, nonceHex)
  IN IF IsThrow(json) THEN json ELSE JSON_parse(json)

(***************************************************************************)
(* Bucket generator (lib/e2ee/crypto.ts)                                   *)
(***************************************************************************)
hmac(key, data) == [hmac |-> key, data |-> data]

\* hex.slice(0, n) of the hex text of an opaque byte string
HexSlice(hex, n) == [hex EXCEPT !.digits = n]

generateBucket(bucketKey, prefix, value) ==
  HexSlice(bytesToHex(hmac(bucketKey, TextEncoder_encode(prefix \o ":" \o value))), BUCKET_HEX)

generateDayBucket(bucketKey, date) == generateBucket(bucketKey, "day", date)

generateMonthBucket(bucketKey, yearMonth) == generateBucket(bucketKey, "month", yearMonth)

\* date.slice(0, 7)
YearMonthOf(date) == SubSeq(date, 1, 7)

(***************************************************************************)
(* Local plaintext cache (lib/storage.ts over AsyncStorage)                *)
(***************************************************************************)
AsyncStorage_getItem(g, dev, key) == g.asyncStorage[dev][key]

AsyncStorage_setItem(g, dev, key, value) == [g EXCEPT !.asyncStorage[dev][key] = value]

\* data ? JSON.parse(data) : []
ParsedOrEmpty(data) == IF data = None THEN <<>> ELSE JSON_parse(data)

\* entries.findIndex(e => e.id === id), 0 when there is none
FindIndexById(entries, id) ==
  IF \E i \in 1..Len(entries) : entries[i].id = id
  THEN CHOOSE i \in 1..Len(entries) :
         /\ entries[i].id = id
         /\ \A j \in 1..(i - 1) : entries[j].id # id
  ELSE 0

ForDate(entries, date) ==
  LET onDate(e) == e.date = date
  IN SelectSeq(entries, onDate)

\* Mutant: a day takes one entry only.
saveDailyEntry_write_oneADay(entries, entry) ==
  LET existingIndex == FindIndexById(entries, entry.id)
  IN IF existingIndex > 0
     THEN [write |-> TRUE, entries |-> [entries EXCEPT ![existingIndex] = entry]]
     ELSE IF Len(ForDate(entries, entry.date)) >= 1
          THEN [write |-> FALSE, entries |-> entries]
          ELSE [write |-> TRUE, entries |-> Append(entries, entry)]

\* storage.saveDailyEntry after its read: whether it writes @entries and
\* what (nothing when the day already has two entries and the id is new).
saveDailyEntry_write(entries, entry) ==
  LET existingIndex == FindIndexById(entries, entry.id)
  IN IF existingIndex > 0
     THEN [write |-> TRUE, entries |-> [entries EXCEPT ![existingIndex] = entry]]
     ELSE IF Len(ForDate(entries, entry.date)) >= MAX_PER_DAY
          THEN [write |-> FALSE, entries |-> entries]
          ELSE [write |-> TRUE, entries |-> Append(entries, entry)]

FindLogIndex(allLogs, habitId, date) ==
  IF \E i \in 1..Len(allLogs) : allLogs[i].habitId = habitId /\ allLogs[i].date = date
  THEN CHOOSE i \in 1..Len(allLogs) :
         /\ allLogs[i].habitId = habitId /\ allLogs[i].date = date
         /\ \A j \in 1..(i - 1) : ~(allLogs[j].habitId = habitId /\ allLogs[j].date = date)
  ELSE 0

\* storage.toggleHabitLog after its read: the new content of @habit_logs.
toggleHabitLog_write(allLogs, habitId, date) ==
  LET index == FindLogIndex(allLogs, habitId, date)
  IN IF index > 0 THEN [allLogs EXCEPT ![index].completed = ~@]
     ELSE Append(allLogs, [habitId |-> habitId, date |-> date, completed |-> TRUE])

(***************************************************************************)
(* Encrypted storage facade (lib/e2ee/encrypted-storage.ts)                *)
(***************************************************************************)
EntryPayload(date, allEntriesForDate) ==
  [date |-> date,
   entries |-> [i \in 1..Len(allEntriesForDate) |->
                  [id |-> allEntriesForDate[i].id,
                   text |-> allEntriesForDate[i].text,
                   createdAt |-> allEntriesForDate[i].createdAt,
                   localMediaUrls |-> allEntriesForDate[i].mediaUrls]]]

\* saveEncryptedEntry from line 66 on, once storage.saveDailyEntry is done.
saveEncryptedEntry_afterLocal(g, f) ==
  IF ~isKeyringUnlocked(g, f.dev) THEN Return(g, f, None)
  ELSE LET r == auth_getUser(f)
       IN Upd(g, Goto(SetLoc(r.f, "user", r.user), "gotUser"))

saveEncryptedEntry(g, f) ==
  LET dev == f.dev
      entry == f.args.entry
  IN
  CASE f.pc = "start" ->
         Upd(g, Goto(SetLoc(f, "data", AsyncStorage_getItem(g, dev, STORAGE_KEYS.ENTRIES)),
                     "readEntries"))
    [] f.pc = "readEntries" ->
         LET w == saveDailyEntry_write(ParsedOrEmpty(f.loc.data), entry)
         IN IF ~w.write THEN saveEncryptedEntry_afterLocal(g, f)
            ELSE Upd(AsyncStorage_setItem(g, dev, STORAGE_KEYS.ENTRIES, JSON_stringify(w.entries)),
                     Goto(f, "savedLocal"))
    [] f.pc = "savedLocal" -> saveEncryptedEntry_afterLocal(g, f)
    [] f.pc = "gotUser" ->
         IF f.loc.user = None THEN Return(g, f, None)
         ELSE LET masterKey == getMasterKey(g, dev)
                  bucketKey == getBucketKey(g, dev)
              IN IF IsThrow(masterKey) \/ IsThrow(bucketKey) THEN Throw(g, f, "KeyringLocked")
                 ELSE Upd(g, Goto(SetLoc(SetLoc(SetLoc(f, "masterKey", masterKey),
                                   "bucketKey", bucketKey),
                                   "data", AsyncStorage_getItem(g, dev, STORAGE_KEYS.ENTRIES)),
                                  "readForDate"))
    [] f.pc = "readForDate" ->
         LET allEntriesForDate == ForDate(ParsedOrEmpty(f.loc.data), entry.date)
             dayBucket == generateDayBucket(f.loc.bucketKey, entry.date)
             monthBucket == generateMonthBucket(f.loc.bucketKey, YearMonthOf(entry.date))
             payload == EntryPayload(entry.date, allEntriesForDate)
             e == encryptJson(payload, f.loc.masterKey, f.env.rnd, f.nRand + 1)
             r == db_upsert(g, Drew(f, 1), "entries",
                    [owner_id |-> f.loc.user.id, day_bucket |-> dayBucket,
                     month_bucket |-> monthBucket, ciphertext |-> e.ciphertext,
                     nonce |-> e.nonce, version |-> 1],
                    {"owner_id", "day_bucket"})
         IN Upd(r.g, Goto(SetLoc(r.f, "error", r.error), "upserted"))
    [] f.pc = "upserted" -> Return(g, f, None)

HabitPayload(habit) == [id |-> habit.id, name |-> habit.name, createdAt |-> habit.createdAt]

\* One turn of the insert loop of saveEncryptedHabits, at habits[i].
saveEncryptedHabits_insert(g, f, i) ==
  LET habits == f.args.habits
  IN IF i > Len(habits) THEN Return(g, f, None)
     ELSE LET e == encryptJson(HabitPayload(habits[i]), f.loc.masterKey, f.env.rnd, f.nRand + 1)
              r == db_insert(g, Drew(f, 1), "habits",
                     [owner_id |-> f.loc.user.id, ciphertext |-> e.ciphertext,
                      nonce |-> e.nonce, version |-> 1])
          IN Upd(r.g, Goto(SetLoc(SetLoc(r.f, "error", r.error), "i", i), "inserted"))

\* saveEncryptedHabits with the identity lookup moved before the local write.
saveEncryptedHabits_remoteFirst(g, f) ==
  LET dev == f.dev
      habits == f.args.habits
  IN
  CASE f.pc = "start" ->
         IF ~isKeyringUnlocked(g, dev)
         THEN Upd(AsyncStorage_setItem(g, dev, STORAGE_KEYS.HABITS, JSON_stringify(habits)),
                  Goto(f, "savedLocal"))
         ELSE LET r == auth_getUser(f)
              IN Upd(g, Goto(SetLoc(r.f, "user", r.user), "gotUserFirst"))
    [] f.pc = "gotUserFirst" ->
         Upd(AsyncStorage_setItem(g, dev, STORAGE_KEYS.HABITS, JSON_stringify(habits)),
             Goto(f, "gotUser"))
    [] f.pc = "savedLocal" -> Return(g, f, None)
    [] f.pc = "gotUser" ->
         IF f.loc.user = None THEN Return(g, f, None)
         ELSE LET masterKey == getMasterKey(g, dev)
                  r == db_delete(g, f, "habits", [owner_id |-> f.loc.user.id])
              IN IF IsThrow(masterKey) THEN Throw(g, f, "KeyringLocked")
                 ELSE Upd(r.g, Goto(SetLoc(SetLoc(r.f, "masterKey", masterKey),
                                           "deleteError", r.error), "deleted"))
    [] f.pc = "deleted" ->
         IF f.loc.deleteError THEN Return(g, f, None)
         ELSE saveEncryptedHabits_insert(g, f, 1)
    [] f.pc = "inserted" -> saveEncryptedHabits_insert(g, f, f.loc.i + 1)

saveEncryptedHabits(g, f) ==
  LET dev == f.dev
      habits == f.args.habits
  IN
  CASE f.pc = "start" ->
         Upd(AsyncStorage_setItem(g, dev, STORAGE_KEYS.HABITS, JSON_stringify(habits)),
             Goto(f, "savedLocal"))
    [] f.pc = "savedLocal" ->
         IF ~isKeyringUnlocked(g, dev) THEN Return(g, f, None)
         ELSE LET r == auth_getUser(f)
              IN Upd(g, Goto(SetLoc(r.f, "user", r.user), "gotUser"))
    [] f.pc = "gotUser" ->
         IF f.loc.user = None THEN Return(g, f, None)
         ELSE LET masterKey == getMasterKey(g, dev)
                  r == db_delete(g, f, "habits", [owner_id |-> f.loc.user.id])
              IN IF IsThrow(masterKey) THEN Throw(g, f, "KeyringLocked")
                 ELSE Upd(r.g, Goto(SetLoc(SetLoc(r.f, "masterKey", masterKey),
                                           "deleteError", r.error), "deleted"))
    [] f.pc = "deleted" ->
         IF f.loc.deleteError THEN Return(g, f, None)
         ELSE saveEncryptedHabits_insert(g, f, 1)
    [] f.pc = "inserted" -> saveEncryptedHabits_insert(g, f, f.loc.i + 1)

\* The rows that decrypt, as the values built from their payloads; a row
\* that fails to decrypt is skipped.
RECURSIVE DecryptHabits(_, _)
DecryptHabits(rows, masterKey) ==
  IF rows = <<>> THEN <<>>
  ELSE LET payload == decryptJson(Head(rows).ciphertext, masterKey, Head(rows).nonce)
       IN (IF IsThrow(payload) THEN <<>>
           ELSE <<[id |-> payload.id, name |-> payload.name, createdAt |-> payload.createdAt]>>)
          \o DecryptHabits(Tail(rows), masterKey)

loadEncryptedHabits_local(g, f) ==
  Upd(g, Goto(SetLoc(f, "data", AsyncStorage_getItem(g, f.dev, STORAGE_KEYS.HABITS)), "readLocal"))

loadEncryptedHabits(g, f) ==
  LET dev == f.dev
  IN
  CASE f.pc = "start" ->
         IF ~isKeyringUnlocked(g, dev) THEN loadEncryptedHabits_local(g, f)
         ELSE LET r == auth_getUser(f)
              IN Upd(g, Goto(SetLoc(r.f, "user", r.user), "gotUser"))
    [] f.pc = "gotUser" ->
         IF f.loc.user = None THEN loadEncryptedHabits_local(g, f)
         ELSE LET masterKey == getMasterKey(g, dev)
                  r == db_select(g, f, "habits", [owner_id |-> f.loc.user.id])
              IN IF IsThrow(masterKey) THEN Throw(g, f, "KeyringLocked")
                 ELSE Upd(g, Goto(SetLoc(SetLoc(SetLoc(r.f, "masterKey", masterKey),
                                   "rows", r.data), "error", r.error), "selected"))
    [] f.pc = "selected" ->
         IF f.loc.error THEN loadEncryptedHabits_local(g, f)
         ELSE LET rows == f.loc.rows    \* rows || []: null only together with an error
                  habits == DecryptHabits(rows, f.loc.masterKey)
              IN IF Len(habits) > 0
                 THEN Upd(AsyncStorage_setItem(g, dev, STORAGE_KEYS.HABITS, JSON_stringify(habits)),
                          Goto(SetLoc(f, "habits", habits), "cached"))
                 ELSE loadEncryptedHabits_local(g, f)
    [] f.pc = "cached" -> Return(g, f, f.loc.habits)
    [] f.pc = "readLocal" -> Return(g, f, ParsedOrEmpty(f.loc.data))

HabitLogPayload(habitId, date, completed) ==
  [habitId |-> habitId, date |-> date, completed |-> completed]

toggleEncryptedHabitLog(g, f) ==
  LET dev == f.dev
      habitId == f.args.habitId
      date == f.args.date
  IN
  CASE f.pc = "start" ->
         Upd(g, Goto(SetLoc(f, "data", AsyncStorage_getItem(g, dev, STORAGE_KEYS.LOGS)), "readLogs"))
    [] f.pc = "readLogs" ->
         Upd(AsyncStorage_setItem(g, dev, STORAGE_KEYS.LOGS,
               JSON_stringify(toggleHabitLog_write(ParsedOrEmpty(f.loc.data), habitId, date))),
             Goto(f, "savedLocal"))
    [] f.pc = "savedLocal" ->
         IF ~isKeyringUnlocked(g, dev) THEN Return(g, f, None)
         ELSE LET r == auth_getUser(f)
              IN Upd(g, Goto(SetLoc(r.f, "user", r.user), "gotUser"))
    [] f.pc = "gotUser" ->
         IF f.loc.user = None THEN Return(g, f, None)
         ELSE LET masterKey == getMasterKey(g, dev)
                  bucketKey == getBucketKey(g, dev)
              IN IF IsThrow(masterKey) \/ IsThrow(bucketKey) THEN Throw(g, f, "KeyringLocked")
                 ELSE Upd(g, Goto(SetLoc(SetLoc(SetLoc(f, "masterKey", masterKey),
                                   "bucketKey", bucketKey),
                                   "data", AsyncStorage_getItem(g, dev, STORAGE_KEYS.LOGS)),
                                  "readState"))
    [] f.pc = "readState" ->
         LET allLogs == ParsedOrEmpty(f.loc.data)
             index == FindLogIndex(allLogs, habitId, date)
             completed == IF index > 0 THEN allLogs[index].completed ELSE FALSE
             dayBucket == generateDayBucket(f.loc.bucketKey, habitId \o ":" \o date)
             monthBucket == generateMonthBucket(f.loc.bucketKey, YearMonthOf(date))
             e == encryptJson(HabitLogPayload(habitId, date, completed),
                              f.loc.masterKey, f.env.rnd, f.nRand + 1)
             r == db_single(db_select(g, Drew(f, 1), "habit_logs",
                    [owner_id |-> f.loc.user.id, day_bucket |-> dayBucket]))
             f1 == SetLoc(SetLoc(SetLoc(SetLoc(r.f, "existing", r.data), "sealed", e),
                     "dayBucket", dayBucket), "monthBucket", monthBucket)
         IN Upd(g, Goto(f1, "checked"))
    [] f.pc = "checked" ->
         IF f.loc.existing # None
         THEN LET r == db_update(g, f, "habit_logs", [id |-> f.loc.existing.id],
                         [ciphertext |-> f.loc.sealed.ciphertext,
                          nonce |-> f.loc.sealed.nonce, version |-> 1])
              IN Upd(r.g, Goto(SetLoc(r.f, "error", r.error), "written"))
         ELSE LET r == db_insert(g, f, "habit_logs",
                         [owner_id |-> f.loc.user.id, day_bucket |-> f.loc.dayBucket,
                          month_bucket |-> f.loc.monthBucket,
                          ciphertext |-> f.loc.sealed.ciphertext,
                          nonce |-> f.loc.sealed.nonce, version |-> 1])
              IN Upd(r.g, Goto(SetLoc(r.f, "error", r.error), "written"))
    [] f.pc = "written" -> Return(g, f, None)

(***************************************************************************)
(* Habit logs through the edge functions (lib/db/habit-logs.ts)            *)
(***************************************************************************)
getLogDayBucket(habitId, date) == habitId \o ":" \o date

getMonthBucket(date) == SubSeq(date, 1, 7)

\* args.currentCompleted is None when the caller leaves it out.
toggleHabitLog(g, f) ==
  LET habitId == f.args.habitId
      date == f.args.date
      currentCompleted == f.args.currentCompleted
      dayBucket == getLogDayBucket(habitId, date)
      monthBucket == getMonthBucket(date)
  IN
  CASE f.pc = "start" ->
         Upd(g, Goto(SetLoc(f, "userId", UserId), "gotUserId"))
    [] f.pc = "gotUserId" ->
         IF currentCompleted # None
         THEN Upd(g, Goto(SetLoc(f, "completed", ~currentCompleted.bool), "decided"))
         ELSE LET r == db_maybeSingle(db_select(g, f, "habit_logs",
                         [owner_id |-> f.loc.userId, day_bucket |-> Str(dayBucket)]))
                  completed == IF r.data # None /\ "completed" \in DOMAIN r.data
                               THEN ~r.data.completed ELSE TRUE
              IN Upd(g, Goto(SetLoc(r.f, "completed", completed), "decided"))
    [] f.pc = "decided" ->
         LET r == functions_post(g, f, "encrypt_and_save",
                    [table |-> "habit_logs",
                     data |-> [habitId |-> habitId, date |-> date,
                               completed |-> f.loc.completed],
                     owner_id |-> f.loc.userId,
                     day_bucket |-> Str(dayBucket),
                     month_bucket |-> Str(monthBucket)])
         IN Upd(r.g, Goto(SetLoc(r.f, "ok", r.ok), "responded"))
    [] f.pc = "responded" ->
         IF ~f.loc.ok THEN Throw(g, f, "Failed to save habit log")
         ELSE Return(g, f, None)

\* String(n) of a non-negative integer
DecimalDigits == "0123456789"

RECURSIVE Number_toString(_)
Number_toString(n) ==
  IF n < 10 THEN SubSeq(DecimalDigits, n + 1, n + 1)
  ELSE Number_toString(n \div 10) \o SubSeq(DecimalDigits, (n % 10) + 1, (n % 10) + 1)

RECURSIVE padStart(_, _, _)
padStart(text, n, fill) == IF Len(text) >= n THEN text ELSE padStart(fill \o text, n, fill)

\* `${year}-${Number_toString(month).padStart(2, '0')}`
YearMonth(year, month) == Number_toString(year) \o "-" \o padStart(Number_toString(month), 2, "0")

RECURSIVE parseDecimal(_)
parseDecimal(text) ==
  IF text = "" THEN 0
  ELSE 10 * parseDecimal(SubSeq(text, 1, Len(text) - 1))
       + (CHOOSE d \in 0..9 : SubSeq(DecimalDigits, d + 1, d + 1) = SubSeq(text, Len(text), Len(text)))

\* new Date("YYYY-MM-DD"), read back with getFullYear() and getMonth() + 1
\* on a device whose time zone is not behind UTC.
Date_getFullYear(date) == parseDecimal(SubSeq(date, 1, 4))

Date_getMonth1(date) == parseDecimal(SubSeq(date, 6, 7))

startsWith(text, prefix) ==
  Len(text) >= Len(prefix) /\ SubSeq(text, 1, Len(prefix)) = prefix

\* The filter of the LOCKED path of loadEncryptedEntriesForMonth.
EntriesOfMonth(entries, year, month) ==
  LET inMonth(e) == Date_getFullYear(e.date) = year /\ Date_getMonth1(e.date) = month
  IN SelectSeq(entries, inMonth)

\* storage.getHabitLogs(month, year) after its read
getHabitLogs_filter(allLogs, month, year) ==
  LET inMonth(log) == startsWith(log.date, YearMonth(year, month))
  IN SelectSeq(allLogs, inMonth)

\* e.localMediaUrls || []
MediaUrlsOf(e) == IF "localMediaUrls" \in DOMAIN e THEN e.localMediaUrls ELSE <<>>

\* Mutant: a row in the legacy format yields no entry.
EntriesOfPayload_newFormatOnly(row, decrypted) ==
  IF "entries" \in DOMAIN decrypted
  THEN [i \in 1..Len(decrypted.entries) |->
          [id |-> decrypted.entries[i].id, date |-> decrypted.date,
           text |-> decrypted.entries[i].text,
           mediaUrls |-> MediaUrlsOf(decrypted.entries[i]),
           createdAt |-> decrypted.entries[i].createdAt]]
  ELSE <<>>

\* The entries of one decrypted row, in the format with an entries array
\* or in the legacy format of one entry per row.
EntriesOfPayload(row, decrypted) ==
  IF "entries" \in DOMAIN decrypted
  THEN [i \in 1..Len(decrypted.entries) |->
          [id |-> decrypted.entries[i].id, date |-> decrypted.date,
           text |-> decrypted.entries[i].text,
           mediaUrls |-> MediaUrlsOf(decrypted.entries[i]),
           createdAt |-> decrypted.entries[i].createdAt]]
  ELSE <<[id |-> row.id, date |-> decrypted.date, text |-> decrypted.text,
          mediaUrls |-> MediaUrlsOf(decrypted), createdAt |-> decrypted.createdAt]>>

\* Mutant: the decrypt loop gives up at the first row that fails.
RECURSIVE DecryptEntries_stopsAtFailure(_, _)
DecryptEntries_stopsAtFailure(rows, masterKey) ==
  IF rows = <<>> THEN <<>>
  ELSE LET decrypted == decryptJson(Head(rows).ciphertext, masterKey, Head(rows).nonce)
       IN IF IsThrow(decrypted) THEN <<>>
          ELSE EntriesOfPayload(Head(rows), decrypted)
                 \o DecryptEntries_stopsAtFailure(Tail(rows), masterKey)

\* The decrypt loop of loadEncryptedEntriesForMonth; a row that fails to
\* decrypt is skipped.
RECURSIVE DecryptEntries(_, _)
DecryptEntries(rows, masterKey) ==
  IF rows = <<>> THEN <<>>
  ELSE LET decrypted == decryptJson(Head(rows).ciphertext, masterKey, Head(rows).nonce)
       IN (IF IsThrow(decrypted) THEN <<>> ELSE EntriesOfPayload(Head(rows), decrypted))
          \o DecryptEntries(Tail(rows), masterKey)

loadEncryptedEntriesForMonth_local(g, f) ==
  Upd(g, Goto(SetLoc(f, "data", AsyncStorage_getItem(g, f.dev, STORAGE_KEYS.ENTRIES)), "readLocal"))

loadEncryptedEntriesForMonth(g, f) ==
  LET dev == f.dev
      year == f.args.year
      month == f.args.month
  IN
  CASE f.pc = "start" ->
         IF ~isKeyringUnlocked(g, dev)
         THEN Upd(g, Goto(SetLoc(f, "data", AsyncStorage_getItem(g, dev, STORAGE_KEYS.ENTRIES)),
                          "readLocked"))
         ELSE LET r == auth_getUser(f)
              IN Upd(g, Goto(SetLoc(r.f, "user", r.user), "gotUser"))
    [] f.pc = "readLocked" ->
         Return(g, f, EntriesOfMonth(ParsedOrEmpty(f.loc.data), year, month))
    [] f.pc = "gotUser" ->
         IF f.loc.user = None THEN loadEncryptedEntriesForMonth_local(g, f)
         ELSE LET masterKey == getMasterKey(g, dev)
                  bucketKey == getBucketKey(g, dev)
              IN IF IsThrow(masterKey) \/ IsThrow(bucketKey) THEN Throw(g, f, "KeyringLocked")
                 ELSE LET monthBucket == generateMonthBucket(bucketKey, YearMonth(year, month))
                          r == db_select(g, f, "entries",
                                 [owner_id |-> f.loc.user.id, month_bucket |-> monthBucket])
                      IN Upd(g, Goto(SetLoc(SetLoc(SetLoc(r.f, "masterKey", masterKey),
                                        "rows", r.data), "error", r.error), "selected"))
    [] f.pc = "selected" ->
         IF f.loc.error THEN loadEncryptedEntriesForMonth_local(g, f)
         ELSE Return(g, f, DecryptEntries(f.loc.rows, f.loc.masterKey))
    [] f.pc = "readLocal" -> Return(g, f, ParsedOrEmpty(f.loc.data))

\* The decrypt loop of loadEncryptedHabitLogs.
RECURSIVE DecryptHabitLogs(_, _)
DecryptHabitLogs(rows, masterKey) ==
  IF rows = <<>> THEN <<>>
  ELSE LET payload == decryptJson(Head(rows).ciphertext, masterKey, Head(rows).nonce)
       IN (IF IsThrow(payload) THEN <<>>
           ELSE <<[habitId |-> payload.habitId, date |-> payload.date,
                   completed |-> payload.completed]>>)
          \o DecryptHabitLogs(Tail(rows), masterKey)

loadEncryptedHabitLogs_local(g, f) ==
  Upd(g, Goto(SetLoc(f, "data", AsyncStorage_getItem(g, f.dev, STORAGE_KEYS.LOGS)), "readLocal"))

loadEncryptedHabitLogs(g, f) ==
  LET dev == f.dev
      month == f.args.month
      year == f.args.year
  IN
  CASE f.pc = "start" ->
         IF ~isKeyringUnlocked(g, dev) THEN loadEncryptedHabitLogs_local(g, f)
         ELSE LET r == auth_getUser(f)
              IN Upd(g, Goto(SetLoc(r.f, "user", r.user), "gotUser"))
    [] f.pc = "gotUser" ->
         IF f.loc.user = None THEN loadEncryptedHabitLogs_local(g, f)
         ELSE LET masterKey == getMasterKey(g, dev)
                  bucketKey == getBucketKey(g, dev)
              IN IF IsThrow(masterKey) \/ IsThrow(bucketKey) THEN Throw(g, f, "KeyringLocked")
                 ELSE LET monthBucket == generateMonthBucket(bucketKey, YearMonth(year, month))
                          r == db_select(g, f, "habit_logs",
                                 [owner_id |-> f.loc.user.id, month_bucket |-> monthBucket])
                      IN Upd(g, Goto(SetLoc(SetLoc(SetLoc(r.f, "masterKey", masterKey),
                                        "rows", r.data), "error", r.error), "selected"))
    [] f.pc = "selected" ->
         IF f.loc.error THEN loadEncryptedHabitLogs_local(g, f)
         ELSE LET logs == DecryptHabitLogs(f.loc.rows, f.loc.masterKey)
              IN IF Len(logs) > 0 THEN Return(g, f, logs)
                 ELSE loadEncryptedHabitLogs_local(g, f)
    [] f.pc = "readLocal" ->
         Return(g, f, getHabitLogs_filter(ParsedOrEmpty(f.loc.data), month, year))

\* The first index at or after i of an entry whose date is not synced yet,
\* 0 when there is none.
NextUnsynced(entries, i, datesSynced) ==
  IF \E j \in i..Len(entries) : entries[j].date \notin datesSynced
  THEN CHOOSE j \in i..Len(entries) :
         /\ entries[j].date \notin datesSynced
         /\ \A k \in i..(j - 1) : entries[k].date \in datesSynced
  ELSE 0

\* The first index at or after j of a completed log, 0 when there is none.
NextCompleted(logs, j) ==
  IF \E k \in j..Len(logs) : logs[k].completed
  THEN CHOOSE k \in j..Len(logs) :
         /\ logs[k].completed
         /\ \A m \in j..(k - 1) : ~logs[m].completed
  ELSE 0

\* await of a call of another handler: the callee runs as a nested frame
\* that shares the caller's environment.
CallSub(g, f, op, args, pc) ==
  Upd(g, [Goto(f, pc) EXCEPT !.sub =
            [NewFrame(op, f.dev, args, f.env) EXCEPT
               !.nRemote = f.nRemote, !.nRand = f.nRand, !.remoteFailed = f.remoteFailed]])

syncLocalDataToCloud_entries(g, f) ==
  Upd(g, Goto(SetLoc(f, "data", AsyncStorage_getItem(g, f.dev, STORAGE_KEYS.ENTRIES)), "readEntries"))

syncLocalDataToCloud_entryLoop(g, f, i) ==
  LET j == NextUnsynced(f.loc.entries, i, f.loc.datesSynced)
  IN IF j > 0
     THEN CallSub(g, SetLoc(f, "i", j), "saveEncryptedEntry", [entry |-> f.loc.entries[j]], "syncedEntry")
     ELSE Upd(g, Goto(SetLoc(f, "data", AsyncStorage_getItem(g, f.dev, STORAGE_KEYS.LOGS)), "readLogs"))

syncLocalDataToCloud_logLoop(g, f, j) ==
  LET k == NextCompleted(f.loc.logs, j)
  IN IF k > 0
     THEN CallSub(g, SetLoc(f, "j", k), "toggleEncryptedHabitLog",
                  [habitId |-> f.loc.logs[k].habitId, date |-> f.loc.logs[k].date], "syncedLog")
     ELSE Return(g, f, None)

syncLocalDataToCloud(g, f) ==
  LET dev == f.dev
  IN
  CASE f.pc = "start" ->
         IF ~isKeyringUnlocked(g, dev) THEN Throw(g, f, "KeyringLocked")
         ELSE Upd(g, Goto(SetLoc(f, "data", AsyncStorage_getItem(g, dev, STORAGE_KEYS.HABITS)),
                          "readHabits"))
    [] f.pc = "readHabits" ->
         LET habits == ParsedOrEmpty(f.loc.data)
         IN IF Len(habits) > 0
            THEN CallSub(g, f, "saveEncryptedHabits", [habits |-> habits], "syncedHabits")
            ELSE syncLocalDataToCloud_entries(g, f)
    [] f.pc = "syncedHabits" -> syncLocalDataToCloud_entries(g, f)
    [] f.pc = "readEntries" ->
         syncLocalDataToCloud_entryLoop(g,
           SetLoc(SetLoc(f, "entries", ParsedOrEmpty(f.loc.data)), "datesSynced", {}), 1)
    [] f.pc = "syncedEntry" ->
         syncLocalDataToCloud_entryLoop(g,
           SetLoc(f, "datesSynced", f.loc.datesSynced \cup {f.loc.entries[f.loc.i].date}),
           f.loc.i + 1)
    [] f.pc = "readLogs" ->
         syncLocalDataToCloud_logLoop(g, SetLoc(f, "logs", ParsedOrEmpty(f.loc.data)), 1)
    [] f.pc = "syncedLog" -> syncLocalDataToCloud_logLoop(g, f, f.loc.j + 1)

(***************************************************************************)
(* Running a call                                                          *)
(***************************************************************************)
StepOp(g, f) ==
  CASE f.op = "setupMasterKey"          -> setupMasterKey(g, f)
    [] f.op = "unlock"                  -> unlock(g, f)
    [] f.op = "tryRestoreFromCache"     -> tryRestoreFromCache(g, f)
    [] f.op = "lock"                    -> lock(g, f)
    [] f.op = "clearAll"                -> clearAll(g, f)
    [] f.op = "saveEncryptedEntry"      -> saveEncryptedEntry(g, f)
    [] f.op = "saveEncryptedHabits"     -> saveEncryptedHabits(g, f)
    [] f.op = "loadEncryptedHabits"     -> loadEncryptedHabits(g, f)
    [] f.op = "toggleEncryptedHabitLog" -> toggleEncryptedHabitLog(g, f)
    [] f.op = "loadEncryptedEntriesForMonth" -> loadEncryptedEntriesForMonth(g, f)
    [] f.op = "loadEncryptedHabitLogs"  -> loadEncryptedHabitLogs(g, f)
    [] f.op = "syncLocalDataToCloud"    -> syncLocalDataToCloud(g, f)
    [] f.op = "toggleHabitLog"          -> toggleHabitLog(g, f)

\* The caller resumes when the awaited callee has returned, and throws
\* what the callee threw.
Resume(f, sub) ==
  [f EXCEPT !.sub = IF sub.status = "running" THEN sub ELSE None,
            !.nRemote = sub.nRemote, !.nRand = sub.nRand,
            !.remoteFailed = sub.remoteFailed,
            !.status = IF sub.status = "threw" THEN "threw" ELSE @,
            !.err = IF sub.status = "threw" THEN sub.err ELSE @]

Step(g, f) ==
  CHOOSE u \in {IF f.sub = None THEN r ELSE Upd(r.g, Resume(f, r.f)) :
                  r \in {StepOp(g, IF f.sub = None THEN f ELSE f.sub)}} : TRUE

\* The process dies: its memory, and with it the in-memory keys, is gone.
Killed(g, f) ==
  Upd([g EXCEPT !.mem[f.dev] = [masterKey |-> None, bucketKey |-> None]],
      [f EXCEPT !.status = "killed"])

RECURSIVE Run(_, _)
Run(g, f) ==
  IF f.status # "running" THEN Upd(g, f)
  ELSE IF f.env.fuel = 0 THEN Killed(g, f)
  ELSE CHOOSE done \in {Run(r.g, r.f) :
                           r \in {Step(g, [f EXCEPT !.env.fuel = IF @ < 0 THEN @ ELSE @ - 1])}} : TRUE

Min(a, b) == IF a < b THEN a ELSE b

\* The environments of a call that makes at most nRemote remote calls: no
\* remote call fails, or one of them does; the process may be killed after
\* at most maxKill steps.
Envs(nRemote, seeds, maxKill) ==
  [fail : {{}} \cup {{k} : k \in 1..Min(MaxFail, nRemote)},
   rnd : seeds,
   fuel : {-1} \cup 0..maxKill]

\* The program state and what has been observed of it, as one value.
World(s) == [mem |-> s.mem, secureStore |-> s.secureStore,
             asyncStorage |-> s.asyncStorage, remote |-> s.remote]

Observed(f, n) ==
  [n |-> n, op |-> f.op, dev |-> f.dev, args |-> f.args,
   status |-> f.status, ret |-> f.ret, err |-> f.err,
   nRemote |-> f.nRemote, remoteFailed |-> f.remoteFailed]

SetupDone(f) ==
  /\ f.op = "setupMasterKey"
  /\ "error" \in DOMAIN f.loc
  /\ ~f.loc.error

KeyringOps == {"setupMasterKey", "unlock", "tryRestoreFromCache", "lock", "clearAll"}

\* What the history keeps of a call: of a call of the keyring its outcome,
\* of a call of the storage facade also its arguments and its remote calls.
Logged(c, f) ==
  IF c.op \in KeyringOps
  THEN [op |-> c.op, dev |-> c.dev, status |-> f.status]
  ELSE [op |-> c.op, dev |-> c.dev, status |-> f.status, args |-> c.args,
        nRemote |-> f.nRemote, remoteFailed |-> f.remoteFailed]

\* One call of a handler, run to its end, on the state s.
ApplyCall(s, c) ==
  CHOOSE t \in
    {[mem |-> r.g.mem, secureStore |-> r.g.secureStore,
      asyncStorage |-> r.g.asyncStorage, remote |-> r.g.remote,
      last |-> Observed(r.f, Len(s.history) + 1),
      history |-> Append(s.history, Logged(c, r.f)),
      generated |-> IF SetupDone(r.f)
                    THEN [masterKey |-> r.f.loc.newMasterKey,
                          bucketKey |-> r.f.loc.newBucketKey,
                          password |-> c.args.password]
                    ELSE s.generated,
      syncStart |-> IF c.op = "syncLocalDataToCloud" /\ s.syncStart = None
                    THEN World(s) ELSE s.syncStart]
       : r \in {Run(World(s), NewFrame(c.op, c.dev, c.args, c.env))}} : TRUE

RECURSIVE ApplyCalls(_, _)
ApplyCalls(s, calls) ==
  IF calls = <<>> THEN s
  ELSE CHOOSE end \in {ApplyCalls(t, Tail(calls)) : t \in {ApplyCall(s, Head(calls))}} : TRUE

Current ==
  [mem |-> mem, secureStore |-> secureStore, asyncStorage |-> asyncStorage,
   remote |-> remote, last |-> last, history |-> history, generated |-> generated,
   syncStart |-> syncStart]

Call(op, dev, args, env) ==
  /\ budget > 0
  /\ \E t \in {ApplyCall(Current, [op |-> op, dev |-> dev, args |-> args, env |-> env])} :
        /\ mem' = t.mem
        /\ secureStore' = t.secureStore
        /\ asyncStorage' = t.asyncStorage
        /\ remote' = t.remote
        /\ last' = t.last
        /\ history' = t.history
        /\ generated' = t.generated
        /\ syncStart' = t.syncStart
  /\ budget' = budget - 1
  /\ running' = running

NoArgs == [x \in {} |-> None]

FreshState ==
  [mem |-> [d \in Devices |-> [masterKey |-> None, bucketKey |-> None]],
   secureStore |-> [d \in Devices |-> [k \in {MASTER_KEY_CACHE, BUCKET_KEY_CACHE} |-> None]],
   asyncStorage |-> [d \in Devices |->
                       [k \in {STORAGE_KEYS.HABITS, STORAGE_KEYS.ENTRIES, STORAGE_KEYS.LOGS} |-> None]],
   remote |-> [profiles |-> <<>>, entries |-> <<>>, habits |-> <<>>, habit_logs |-> <<>>,
               encrypt_and_save |-> <<>>],
   last |-> [n |-> 0, op |-> "none", dev |-> "A", args |-> NoArgs, status |-> "returned",
             ret |-> None, err |-> "", nRemote |-> 0, remoteFailed |-> FALSE],
   history |-> <<>>,
   generated |-> None,
   syncStart |-> None]

\* The state is the one the calls lead to from a fresh install.
StartAfter(calls, n) ==
  \E t \in {ApplyCalls(FreshState, calls)} :
     /\ mem = t.mem
     /\ secureStore = t.secureStore
     /\ asyncStorage = t.asyncStorage
     /\ remote = t.remote
     /\ last = t.last
     /\ history = t.history
     /\ generated = t.generated
     /\ syncStart = t.syncStart
     /\ budget = n
     /\ running = <<>>

Quiet == [fail |-> {}, rnd |-> 16, fuel |-> -1]

(***************************************************************************)
(* The keyring alone                                                       *)
(***************************************************************************)
SetupMasterKey(devs) ==
  \E dev \in devs, p \in Passwords, env \in Envs(3, RandomSeeds, -1) :
    Call("setupMasterKey", dev, [password |-> p], env)

Unlock(devs) ==
  \E dev \in devs, p \in Passwords, env \in Envs(2, {0}, -1) :
    Call("unlock", dev, [password |-> p], env)

TryRestoreFromCache(devs) ==
  \E dev \in devs : Call("tryRestoreFromCache", dev, NoArgs, Quiet)

Lock(devs) ==
  \E dev \in devs : Call("lock", dev, NoArgs, Quiet)

ClearAll(devs) ==
  \E dev \in devs : Call("clearAll", dev, NoArgs, Quiet)

NextKeyring ==
  \/ SetupMasterKey(Devices)
  \/ Unlock(Devices)
  \/ TryRestoreFromCache(Devices)
  \/ Lock(Devices)
  \/ ClearAll(Devices)

InitKeyring == StartAfter(<<>>, MaxKeyringCalls)

SpecKeyring == InitKeyring /\ [][NextKeyring]_vars

(***************************************************************************)
(* Properties of the keyring                                               *)
(***************************************************************************)
Locked(dev) == mem[dev].masterKey = None

UnlockWith(correct) ==
  /\ last.op = "unlock"
  /\ generated # None
  /\ (last.args.password = generated.password) = correct
  /\ ~last.remoteFailed

\* C1: once setupMasterKey(p) has succeeded, every unlock(p) whose remote
\* calls succeed (in particular the one after lock()) returns normally and
\* leaves in memory exactly the MasterKey and BucketKey that setup generated.
C1_SetupLockUnlockRestoresKeys ==
  UnlockWith(TRUE) =>
    /\ last.status = "returned"
    /\ mem[last.dev] = [masterKey |-> generated.masterKey, bucketKey |-> generated.bucketKey]

HistoryEndsWith(ops) ==
  /\ Len(history) >= Len(ops)
  /\ \A i \in 1..Len(ops) :
       LET h == history[Len(history) - Len(ops) + i]
       IN h.op = ops[i] /\ h.dev = last.dev

C1_Witness ==
  /\ UnlockWith(TRUE)
  /\ HistoryEndsWith(<<"setupMasterKey", "lock", "unlock">>)
  /\ mem[last.dev].masterKey = generated.masterKey
  /\ mem[last.dev].bucketKey = generated.bucketKey
  /\ generated.masterKey # generated.bucketKey

\* C2 as claimed: after a valid setup, unlock with another password raises
\* IncorrectPassword and the keyring is LOCKED after the failed call.
C2_WrongPasswordLeavesLocked ==
  UnlockWith(FALSE) =>
    /\ last.status = "threw"
    /\ last.err = "IncorrectPassword"
    /\ Locked(last.dev)

\* C2 as amended: after a valid setup, unlock with another password raises
\* IncorrectPassword and leaves the in-memory keys as they were before the
\* call, so a keyring that was LOCKED before the call is LOCKED after it.
C2_WrongPasswordLeavesKeyringUnchanged ==
  [][(last'.n # last.n /\ UnlockWith(FALSE)') =>
       /\ last'.status = "threw"
       /\ last'.err = "IncorrectPassword"
       /\ mem' = mem]_vars

C2_Witness ==
  /\ UnlockWith(FALSE)
  /\ HistoryEndsWith(<<"setupMasterKey", "lock", "unlock">>)
  /\ last.err = "IncorrectPassword"
  /\ Locked(last.dev)

(***************************************************************************)
(* Journal entries on one device                                           *)
(***************************************************************************)
EntryIds == {"e1", "e2", "e3"}
Dates    == {"2026-01-20", "2026-01-21"}

EntryOf(id, date) ==
  [id |-> id, date |-> date, text |-> "text", mediaUrls |-> <<>>, createdAt |-> "t0"]

Entries == {EntryOf(id, date) : id \in EntryIds, date \in Dates}

SetupOnA  == [op |-> "setupMasterKey", dev |-> "A", args |-> [password |-> "pw-right"], env |-> Quiet]
LockA     == [op |-> "lock", dev |-> "A", args |-> NoArgs, env |-> Quiet]
UnlockOnB == [op |-> "unlock", dev |-> "B", args |-> [password |-> "pw-right"], env |-> Quiet]

SaveEncryptedEntry(devs, entries) ==
  \E dev \in devs, e \in entries, env \in Envs(2, {budget}, -1) :
    Call("saveEncryptedEntry", dev, [entry |-> e], env)

NextEntries ==
  \/ SaveEncryptedEntry({"A"}, Entries)
  \/ Lock({"A"})
  \/ TryRestoreFromCache({"A"})

InitEntries ==
  \/ StartAfter(<<SetupOnA>>, MaxEntriesCalls)
  \/ StartAfter(<<SetupOnA, LockA>>, MaxEntriesCalls)

SpecEntries == InitEntries /\ [][NextEntries]_vars

\* Two devices of the account, both unlocked, write entries of one day.
NextSharedEntries ==
  \/ SaveEncryptedEntry(Devices, {EntryOf(id, "2026-01-20") : id \in {"e1", "e2"}})
  \/ Lock({"B"})

InitSharedEntries == StartAfter(<<SetupOnA, UnlockOnB>>, MaxSharedCalls)

SpecSharedEntries == InitSharedEntries /\ [][NextSharedEntries]_vars

(***************************************************************************)
(* Properties of the entries                                               *)
(***************************************************************************)
Contains(seq, x) == \E i \in 1..Len(seq) : seq[i] = x

LocalEntries(dev) == ParsedOrEmpty(asyncStorage[dev][STORAGE_KEYS.ENTRIES])

SavedEntry == last.op = "saveEncryptedEntry"

\* C3 as claimed: an entry saved while the keyring is LOCKED is afterwards
\* among the local entries of its date, whatever the cache held, and the
\* call made no remote call.
C3_LockedSaveKeepsEntryLocally ==
  (SavedEntry /\ Locked(last.dev)) =>
    /\ Contains(ForDate(LocalEntries(last.dev), last.args.entry.date), last.args.entry)
    /\ last.nRemote = 0

\* C3 as amended: a save while LOCKED makes no remote call; the entry is
\* afterwards among the local entries of its date, unless the cache held
\* no entry with its id and already two entries of that date: then the
\* entry is refused and the cache is left as it was.
C3_LockedSaveIsLocalOnly ==
  [][\A dev \in Devices, e \in Entries :
       (last'.n # last.n /\ SavedEntry' /\ last'.dev = dev /\ last'.args.entry = e
          /\ Locked(dev)') =>
         LET before == LocalEntries(dev)
         IN /\ last'.nRemote = 0
            /\ last'.status = "returned"
            /\ IF FindIndexById(before, e.id) = 0 /\ Len(ForDate(before, e.date)) >= 2
               THEN asyncStorage' = asyncStorage
               ELSE Contains(ForDate(LocalEntries(dev)', e.date), e)]_vars

C3_Witness ==
  /\ SavedEntry
  /\ Locked(last.dev)
  /\ last.nRemote = 0
  /\ Len(ForDate(LocalEntries(last.dev), last.args.entry.date)) = 2
  /\ Contains(LocalEntries(last.dev), last.args.entry)

\* The rows of the entries table that hold the day of a date.
DayRows(date) ==
  Matching(remote.entries,
           [owner_id |-> UserId, day_bucket |-> generateDayBucket(generated.bucketKey, date)])

RowPayload(row) == decryptJson(row.ciphertext, generated.masterKey, row.nonce)

\* Every save so far ran UNLOCKED with a user and without a remote failure.
AllSavesSynced ==
  \A i \in 1..Len(history) :
     history[i].op = "saveEncryptedEntry" =>
       history[i].nRemote = 2 /\ ~history[i].remoteFailed

OnlySavesSince(n) ==
  \A i \in (n + 1)..Len(history) : history[i].op = "saveEncryptedEntry"

\* C5: after saves made on one device, all UNLOCKED and without remote
\* failure, every day that has local entries has exactly one remote row,
\* and that row decrypts to exactly the local entries of the day.
C5_OneRowPerDayHoldsLocalEntries ==
  (generated # None /\ AllSavesSynced /\ OnlySavesSince(1)) =>
    \A date \in Dates :
       ForDate(LocalEntries("A"), date) # <<>> =>
         /\ Len(DayRows(date)) = 1
         /\ RowPayload(DayRows(date)[1]) = EntryPayload(date, ForDate(LocalEntries("A"), date))

\* C6: a save made UNLOCKED and without remote failure keeps every other
\* entry that the remote record of the day held before the call.
C6_SaveKeepsSiblings ==
  [][\A e \in Entries :
       (last'.n # last.n /\ SavedEntry' /\ last'.args.entry = e
          /\ last'.nRemote = 2 /\ ~last'.remoteFailed) =>
         LET before == DayRows(e.date)
             after == DayRows(e.date)'
         IN \A i \in 1..Len(before) :
              \A k \in 1..Len(RowPayload(before[i]).entries) :
                 LET sibling == RowPayload(before[i]).entries[k]
                 IN sibling.id # e.id =>
                      \E j \in 1..Len(after) : Contains(RowPayload(after[j]).entries, sibling)]_vars

(***************************************************************************)
(* Habits on one device                                                    *)
(***************************************************************************)
HabitOf(id) == [id |-> id, name |-> "habit " \o id, createdAt |-> "t0"]

HabitLists == {<<>>, <<HabitOf("h1")>>, <<HabitOf("h2")>>, <<HabitOf("h1"), HabitOf("h2")>>}

SaveEncryptedHabits(devs, lists) ==
  \E dev \in devs, habits \in lists :
    \E env \in Envs(2 + Len(habits), {budget}, -1) :
    Call("saveEncryptedHabits", dev, [habits |-> habits], env)

LoadEncryptedHabits(devs) ==
  \E dev \in devs, env \in Envs(2, {budget}, -1) :
    Call("loadEncryptedHabits", dev, NoArgs, env)

NextHabits ==
  \/ SaveEncryptedHabits({"A"}, HabitLists)
  \/ LoadEncryptedHabits({"A"})
  \/ Lock({"A"})
  \/ TryRestoreFromCache({"A"})

InitHabits == StartAfter(<<SetupOnA>>, MaxHabitsCalls)

SpecHabits == InitHabits /\ [][NextHabits]_vars

LocalHabits(dev) == ParsedOrEmpty(asyncStorage[dev][STORAGE_KEYS.HABITS])

\* The handler reached a remote write and one of its remote calls failed
\* (the first remote call of every write handler is auth.getUser).
RemoteWriteFailed(call) == call.remoteFailed /\ call.nRemote >= 2

\* C4: when saveEncryptedHabits(H) met a remote write failure, the local
\* cache holds H after the call and still holds H after any number of
\* later loadEncryptedHabits calls.
C4_FailedSaveKeepsHabitsLocally ==
  \A i \in 1..Len(history) :
     (/\ history[i].op = "saveEncryptedHabits"
      /\ RemoteWriteFailed(history[i])
      /\ \A j \in (i + 1)..Len(history) :
            history[j].op = "loadEncryptedHabits" /\ history[j].dev = history[i].dev)
     => LocalHabits(history[i].dev) = history[i].args.habits

(***************************************************************************)
(* Habit logs on one device                                                *)
(***************************************************************************)
ToggleEncryptedHabitLog(devs, habitIds, dates) ==
  \E dev \in devs, habitId \in habitIds, date \in dates, env \in Envs(3, {budget}, -1) :
    Call("toggleEncryptedHabitLog", dev, [habitId |-> habitId, date |-> date], env)

NextLogs ==
  \/ ToggleEncryptedHabitLog({"A"}, {"h1", "h2"}, {"2026-01-20"})
  \/ Lock({"A"})
  \/ TryRestoreFromCache({"A"})

InitLogs == StartAfter(<<SetupOnA>>, MaxLogsCalls)

SpecLogs == InitLogs /\ [][NextLogs]_vars

LocalLogs(dev) == ParsedOrEmpty(asyncStorage[dev][STORAGE_KEYS.LOGS])

\* The rows of habit_logs in the bucket of (habitId, date).
LogRows(habitId, date) ==
  Matching(remote.habit_logs,
           [owner_id |-> UserId,
            day_bucket |-> generateDayBucket(generated.bucketKey, habitId \o ":" \o date)])

\* C9: after a toggle that ran UNLOCKED and without remote failure there
\* is exactly one remote row in the bucket of (habitId, date), and its
\* completed flag is the flipped local value.
C9_ToggleLeavesOneRow ==
  (last.op = "toggleEncryptedHabitLog" /\ last.nRemote = 3 /\ ~last.remoteFailed) =>
    LET habitId == last.args.habitId
        date == last.args.date
        rows == LogRows(habitId, date)
        allLogs == LocalLogs(last.dev)
    IN /\ Len(rows) = 1
       /\ RowPayload(rows[1]).completed
            = allLogs[FindLogIndex(allLogs, habitId, date)].completed

\* C10: a write operation whose remote write fails does not return
\* normally: the failure reaches the caller.
C10_RemoteWriteFailureSurfaced ==
  (/\ last.op \in {"saveEncryptedEntry", "saveEncryptedHabits", "toggleEncryptedHabitLog"}
   /\ RemoteWriteFailed(last))
  => last.status = "threw"

(***************************************************************************)
(* Sync of data that was written before encryption was set up              *)
(***************************************************************************)
HabitIds == {"h1", "h2"}

LocalToggle(habitId) ==
  [op |-> "toggleEncryptedHabitLog", dev |-> "A",
   args |-> [habitId |-> habitId, date |-> "2026-01-20"], env |-> Quiet]

LocalEntry == [op |-> "saveEncryptedEntry", dev |-> "A",
               args |-> [entry |-> EntryOf("e1", "2026-01-20")], env |-> Quiet]

LocalHabit == [op |-> "saveEncryptedHabits", dev |-> "A",
               args |-> [habits |-> <<HabitOf("h1")>>], env |-> Quiet]

SyncLocalDataToCloud(devs) ==
  \E dev \in devs, env \in Envs(3, {budget}, MaxKill) :
    Call("syncLocalDataToCloud", dev, NoArgs, env)

NextSync ==
  \/ SyncLocalDataToCloud({"A"})
  \/ TryRestoreFromCache({"A"})
  \/ Lock({"A"})

InitSync ==
  \/ StartAfter(<<LocalToggle("h1"), SetupOnA>>, MaxSyncCalls)
  \/ StartAfter(<<LocalToggle("h1"), LocalToggle("h2"), SetupOnA>>, MaxSyncCalls)
  \/ StartAfter(<<LocalEntry, LocalHabit, LocalToggle("h1"), SetupOnA>>, MaxSyncCalls)

SpecSync == InitSync /\ [][NextSync]_vars

SyncedFully(call) ==
  /\ call.op = "syncLocalDataToCloud"
  /\ call.status = "returned"
  /\ ~call.remoteFailed

\* C7: after a sync that ran to its end without remote failure, every log
\* that was completed locally when the sync began has a remote row whose
\* payload says completed = true.
C7_SyncPushesCompletedLogs ==
  (SyncedFully(last) /\ Cardinality({i \in 1..Len(history) :
                                       history[i].op = "syncLocalDataToCloud"}) = 1) =>
    LET logs == ParsedOrEmpty(syncStart.asyncStorage["A"][STORAGE_KEYS.LOGS])
    IN \A i \in 1..Len(logs) :
         logs[i].completed =>
           \E k \in 1..Len(LogRows(logs[i].habitId, logs[i].date)) :
              RowPayload(LogRows(logs[i].habitId, logs[i].date)[k]).completed

\* What the remote store holds, whatever the row ids and nonces: for every
\* table, how many rows carry each (bucket, payload).
Holds(rows, withBucket) ==
  LET what(row) == [bucket |-> IF withBucket THEN row.day_bucket ELSE None,
                    payload |-> RowPayload(row)]
      all == {what(rows[i]) : i \in 1..Len(rows)}
  IN [x \in all |-> Cardinality({i \in 1..Len(rows) : what(rows[i]) = x})]

RemoteContent(r) ==
  [entries |-> Holds(r.entries, TRUE),
   habits |-> Holds(r.habits, FALSE),
   habit_logs |-> Holds(r.habit_logs, TRUE)]

\* The remote store after one undisturbed sync from the state in which the
\* first sync began.
SyncedOnce ==
  ApplyCall([Current EXCEPT !.mem = syncStart.mem, !.secureStore = syncStart.secureStore,
                            !.asyncStorage = syncStart.asyncStorage, !.remote = syncStart.remote],
            [op |-> "syncLocalDataToCloud", dev |-> "A", args |-> NoArgs, env |-> Quiet]).remote

SyncIndexes == {i \in 1..Len(history) : history[i].op = "syncLocalDataToCloud"}

\* C8: when sync was run twice, the second run to its end without remote
\* failure and the first to its end or only partly, the remote store holds
\* what it holds after a single undisturbed run.
C8_SyncTwiceSameAsOnce ==
  (/\ Cardinality(SyncIndexes) = 2
   /\ SyncedFully(last)
   /\ \A i \in 1..Len(history) :
        (\E j \in SyncIndexes : j < i) =>
           history[i].op \in {"syncLocalDataToCloud", "tryRestoreFromCache"})
  => RemoteContent(remote) = RemoteContent(SyncedOnce)

(***************************************************************************)
(* Loads on a second device                                                *)
(***************************************************************************)
Years  == {2026}
Months == {1, 2}

QuietCall(op, dev, args, rnd) ==
  [op |-> op, dev |-> dev, args |-> args, env |-> [fail |-> {}, rnd |-> rnd, fuel |-> -1]]

\* Device A writes entries, a habit and a log to the account.
WrittenOnA ==
  <<QuietCall("saveEncryptedEntry", "A", [entry |-> EntryOf("e1", "2026-01-20")], 1),
    QuietCall("saveEncryptedEntry", "A", [entry |-> EntryOf("e2", "2026-02-03")], 2),
    QuietCall("saveEncryptedHabits", "A", [habits |-> <<HabitOf("h1")>>], 3),
    QuietCall("toggleEncryptedHabitLog", "A", [habitId |-> "h1", date |-> "2026-01-20"], 4)>>

\* Device B has data of its own, written before it was unlocked.
WrittenOnB ==
  <<QuietCall("saveEncryptedEntry", "B", [entry |-> EntryOf("e3", "2026-01-21")], 5),
    QuietCall("saveEncryptedEntry", "B", [entry |-> EntryOf("e4", "2026-02-04")], 6),
    QuietCall("saveEncryptedHabits", "B", [habits |-> <<HabitOf("h2")>>], 7),
    QuietCall("toggleEncryptedHabitLog", "B", [habitId |-> "h2", date |-> "2026-02-03"], 8)>>

LoadEncryptedEntriesForMonth(devs) ==
  \E dev \in devs, year \in Years, month \in Months, env \in Envs(2, {budget}, -1) :
    Call("loadEncryptedEntriesForMonth", dev, [year |-> year, month |-> month], env)

LoadEncryptedHabitLogs(devs) ==
  \E dev \in devs, year \in Years, month \in Months, env \in Envs(2, {budget}, -1) :
    Call("loadEncryptedHabitLogs", dev, [month |-> month, year |-> year], env)

NextLoads ==
  \/ LoadEncryptedEntriesForMonth({"B"})
  \/ LoadEncryptedHabits({"B"})
  \/ LoadEncryptedHabitLogs({"B"})
  \/ Lock({"B"})
  \/ TryRestoreFromCache({"B"})

InitLoads ==
  \/ StartAfter(<<SetupOnA>> \o WrittenOnA \o WrittenOnB \o <<UnlockOnB>>, MaxLoadsCalls)
  \/ StartAfter(<<SetupOnA>> \o WrittenOnB \o <<UnlockOnB>>, MaxLoadsCalls)

SpecLoads == InitLoads /\ [][NextLoads]_vars

LoadOps == {"loadEncryptedEntriesForMonth", "loadEncryptedHabits", "loadEncryptedHabitLogs"}

\* What the load of call c answers from the local cache when the keyring
\* is LOCKED.
LockedAnswer(c) ==
  CASE c.op = "loadEncryptedEntriesForMonth" ->
         EntriesOfMonth(LocalEntries(c.dev), c.args.year, c.args.month)
    [] c.op = "loadEncryptedHabits" -> LocalHabits(c.dev)
    [] c.op = "loadEncryptedHabitLogs" ->
         getHabitLogs_filter(LocalLogs(c.dev), c.args.month, c.args.year)

\* C11: a load made UNLOCKED whose identity lookup or remote fetch fails
\* returns what the same load returns from the local cache when LOCKED.
C11_FailedLoadAnswersAsLocked ==
  (last.op \in LoadOps /\ last.remoteFailed) =>
    /\ last.status = "returned"
    /\ last.ret = LockedAnswer(last)

\* C12: after a load that fetched and decrypted remote rows UNLOCKED, the
\* local cache holds them: the same load answered from the local cache,
\* as it is when LOCKED, gives the values the load returned.
C12_LoadRefreshesLocalCache ==
  (/\ last.op \in LoadOps
   /\ last.status = "returned"
   /\ last.nRemote = 2
   /\ ~last.remoteFailed
   /\ Len(last.ret) > 0)
  => LockedAnswer(last) = last.ret

(***************************************************************************)
(* Restoring from any content of the secure cache                          *)
(***************************************************************************)
\* What one item of the secure cache may hold: nothing, the empty text,
\* hex text of whole bytes, text with a letter that is no hex digit, hex
\* text of an odd length.
CacheContents == {None, Str(""), Str("0a1b"), Str("c2"), Str("zz"), Str("abc")}

\* The state t with n calls to go.
StartIn(t, n) ==
  /\ mem = t.mem
  /\ secureStore = t.secureStore
  /\ asyncStorage = t.asyncStorage
  /\ remote = t.remote
  /\ last = t.last
  /\ history = t.history
  /\ generated = t.generated
  /\ syncStart = t.syncStart
  /\ budget = n
  /\ running = <<>>

InitRestore ==
  \E m \in CacheContents, b \in CacheContents :
    StartIn([FreshState EXCEPT !.secureStore["A"] =
               (MASTER_KEY_CACHE :> m) @@ (BUCKET_KEY_CACHE :> b)], MaxRestoreCalls)

NextRestore ==
  \/ TryRestoreFromCache({"A"})
  \/ Lock({"A"})
  \/ ClearAll({"A"})

SpecRestore == InitRestore /\ [][NextRestore]_vars

\* C13: tryRestoreFromCache called on a LOCKED keyring returns true
\* exactly when the keyring is UNLOCKED after the call.
C13_RestoreReturnsWhetherUnlocked ==
  [][\A dev \in Devices :
       (/\ last'.n # last.n
        /\ last'.op = "tryRestoreFromCache"
        /\ last'.dev = dev
        /\ Locked(dev))
       => /\ last'.status = "returned"
          /\ (last'.ret = Bool(TRUE)) <=> ~Locked(dev)']_vars

(***************************************************************************)
(* Properties of lock, restore and clearAll                                *)
(***************************************************************************)
\* The call before the last two calls, all three on the device of the last.
Succeeded(ops) ==
  /\ Len(history) >= 3
  /\ history[Len(history) - 2].op \in ops
  /\ history[Len(history) - 2].dev = last.dev
  /\ history[Len(history) - 2].status = "returned"

GeneratedKeys == [masterKey |-> generated.masterKey, bucketKey |-> generated.bucketKey]

ClearedAndNotReopened(dev) ==
  \E i \in 1..Len(history) :
     /\ history[i].op = "clearAll" /\ history[i].dev = dev /\ history[i].status = "returned"
     /\ \A j \in (i + 1)..Len(history) :
          ~(/\ history[j].dev = dev
            /\ history[j].op \in {"setupMasterKey", "unlock"}
            /\ history[j].status = "returned")

ProfileExists == Matching(remote.profiles, [id |-> UserId]) # <<>>

\* C16 as claimed: setupMasterKey for an authenticated user whose profile
\* row exists throws AlreadyConfigured, makes no remote write (its two
\* remote calls are reads) and changes nothing.
C16_SetupTwiceIsAlreadyConfigured ==
  [][(/\ last'.n # last.n /\ last'.op = "setupMasterKey" /\ ProfileExists
      /\ last'.nRemote >= 2)
     => /\ last'.status = "threw"
        /\ last'.err = "AlreadyConfigured"
        /\ last'.nRemote = 2
        /\ remote' = remote
        /\ mem' = mem
        /\ secureStore' = secureStore]_vars

\* C16 as amended: setupMasterKey for a user whose profile row exists
\* throws and changes neither the remote store nor the keys in memory nor
\* the secure cache; when its remote reads succeed it throws
\* AlreadyConfigured after the two reads, without a remote write.
C16_SetupTwiceChangesNothing ==
  [][(last'.n # last.n /\ last'.op = "setupMasterKey" /\ ProfileExists)
     => /\ last'.status = "threw"
        /\ remote' = remote
        /\ mem' = mem
        /\ secureStore' = secureStore
        /\ ~last'.remoteFailed => (last'.err = "AlreadyConfigured" /\ last'.nRemote = 2)]_vars

C16_Witness ==
  /\ HistoryEndsWith(<<"setupMasterKey", "setupMasterKey">>)
  /\ ~last.remoteFailed
  /\ last.err = "AlreadyConfigured"
  /\ generated # None
  /\ mem[last.dev] = GeneratedKeys
  /\ Len(remote.profiles) = 1

\* C17: syncLocalDataToCloud called while the keyring is LOCKED throws
\* KeyringLocked, makes no remote call, reads nothing into its frame and
\* changes neither the local cache nor the remote store nor the keyring.
C17_LockedSyncDoesNothing ==
  [][\A dev \in Devices :
       (/\ last'.n # last.n
        /\ last'.op = "syncLocalDataToCloud"
        /\ last'.dev = dev
        /\ last'.status # "killed"
        /\ Locked(dev))
       => /\ last'.status = "threw"
          /\ last'.err = "KeyringLocked"
          /\ last'.nRemote = 0
          /\ Run(World(Current), NewFrame("syncLocalDataToCloud", dev, NoArgs, Quiet)).f.loc
               = NoLocals
          /\ asyncStorage' = asyncStorage
          /\ remote' = remote
          /\ mem' = mem
          /\ secureStore' = secureStore]_vars

C17_Witness ==
  /\ last.op = "syncLocalDataToCloud"
  /\ last.err = "KeyringLocked"
  /\ HistoryEndsWith(<<"lock", "syncLocalDataToCloud">>)
  /\ Locked(last.dev)
  /\ \E i \in 1..Len(LocalLogs(last.dev)) : LocalLogs(last.dev)[i].completed
  /\ remote.habit_logs = <<>>

(***************************************************************************)
(* Restarts: keyring calls that the death of the process may interrupt     *)
(***************************************************************************)
Interruptible(op, devs, argss) ==
  \E dev \in devs, args \in argss, env \in Envs(0, {16}, MaxKill) :
    Call(op, dev, args, env)

NextRestart ==
  \/ Interruptible("setupMasterKey", {"A"}, {[password |-> "pw-right"]})
  \/ Interruptible("unlock", Devices, {[password |-> "pw-right"]})
  \/ Interruptible("clearAll", {"A"}, {NoArgs})
  \/ TryRestoreFromCache(Devices)

InitRestart == StartAfter(<<>>, MaxRestartCalls)

SpecRestart == InitRestart /\ [][NextRestart]_vars

\* C18: for an account set up with separate MasterKey and BucketKey, the
\* BucketKey in memory after an unlock with the password that succeeded and
\* after a tryRestoreFromCache that returned true is the BucketKey that
\* setup generated.
C18_BucketKeyIsTheGeneratedOne ==
  (/\ generated # None
   /\ generated.masterKey # generated.bucketKey
   /\ \/ last.op = "unlock" /\ last.status = "returned"
      \/ last.op = "tryRestoreFromCache" /\ last.ret = Bool(TRUE))
  => mem[last.dev].bucketKey = generated.bucketKey

(***************************************************************************)
(* Everything the remote store is sent                                     *)
(***************************************************************************)
ToggleHabitLog(devs, habitIds, dates) ==
  \E dev \in devs, habitId \in habitIds, date \in dates,
     currentCompleted \in {None, Bool(TRUE), Bool(FALSE)}, env \in Envs(2, {budget}, -1) :
    Call("toggleHabitLog", dev,
         [habitId |-> habitId, date |-> date, currentCompleted |-> currentCompleted], env)

NextWrites ==
  \/ SetupMasterKey({"A"})
  \/ SaveEncryptedEntry({"A"}, {EntryOf("e1", "2026-01-20")})
  \/ SaveEncryptedHabits({"A"}, {<<HabitOf("h1")>>})
  \/ ToggleEncryptedHabitLog({"A"}, {"h1"}, {"2026-01-20"})
  \/ ToggleHabitLog({"A"}, {"h1"}, {"2026-01-20"})

InitWrites ==
  \/ StartAfter(<<>>, MaxWritesCalls)
  \/ StartAfter(<<SetupOnA>>, MaxWritesCalls)

SpecWrites == InitWrites /\ [][NextWrites]_vars

IsSealed(v)    == IsHexTerm(v) /\ IsCipher(v.hexOf)
IsKeyedHash(v) == IsHexTerm(v) /\ IsMac(v.hexOf)
IsWrapped(v)   == IsSealed(v) /\ DOMAIN v.hexOf.key = {"scrypt", "N", "r", "p", "dkLen"}

\* The keys and passwords of the account, as bytes and as hex text.
Secrets ==
  LET keys == {mem[d][k] : d \in Devices, k \in {"masterKey", "bucketKey"}}
                \cup (IF generated = None THEN {}
                      ELSE {generated.masterKey, generated.bucketKey})
      bytes == {k \in keys : DOMAIN k = {"bytes"}}
  IN bytes \cup {bytesToHex(k) : k \in bytes} \cup {Str(p) : p \in Passwords}

\* A column of a remote write holds what it may hold.
ColumnIsOpaque(c, v) ==
  CASE c \in {"id", "owner_id", "version", "kdf_params"} -> TRUE
    [] c = "ciphertext" -> IsSealed(v)
    [] c \in {"day_bucket", "month_bucket"} -> IsKeyedHash(v)
    [] c \in {"wrapped_master_key", "wrapped_bucket_key"} -> IsWrapped(v)
    [] c \in {"nonce", "wrapped_master_key_nonce", "wrapped_bucket_key_nonce", "kdf_salt"} ->
         DOMAIN v = {"str"} /\ v \notin Secrets
    [] OTHER -> FALSE

RemoteTables == {"profiles", "entries", "habits", "habit_logs"}

\* The rows of the tables: what the client-side encryption of lib/e2ee
\* writes.
TableRowsRevealNothing ==
  \A t \in RemoteTables : \A i \in 1..Len(remote[t]) :
    \A c \in DOMAIN remote[t][i] : ColumnIsOpaque(c, remote[t][i][c])

\* C19: every row the keyring and the storage operations for entries,
\* habits and habit logs have written to the remote store, and every request
\* they have sent to its functions, carries only an owner id, a version,
\* ciphertext with its nonce, keyed-hash buckets, wrapped keys and KDF salt
\* and parameters.
C19_RemoteWritesRevealNothing ==
  /\ TableRowsRevealNothing
  /\ \A i \in 1..Len(remote.encrypt_and_save) :
       \A c \in DOMAIN remote.encrypt_and_save[i] \ {"table"} :
         ColumnIsOpaque(c, remote.encrypt_and_save[i][c])

(***************************************************************************)
(* Loads of batches that hold rows the device cannot decrypt               *)
(***************************************************************************)
\* Device A writes three rows of one month into every table.
ThreeRowsEach ==
  <<SetupOnA,
    QuietCall("saveEncryptedEntry", "A", [entry |-> EntryOf("e1", "2026-01-20")], 1),
    QuietCall("saveEncryptedEntry", "A", [entry |-> EntryOf("e2", "2026-01-21")], 2),
    QuietCall("saveEncryptedEntry", "A", [entry |-> EntryOf("e3", "2026-01-22")], 3),
    QuietCall("saveEncryptedHabits", "A",
              [habits |-> <<HabitOf("h1"), HabitOf("h2"), HabitOf("h3")>>], 4),
    QuietCall("toggleEncryptedHabitLog", "A", [habitId |-> "h1", date |-> "2026-01-20"], 7),
    QuietCall("toggleEncryptedHabitLog", "A", [habitId |-> "h2", date |-> "2026-01-20"], 8),
    QuietCall("toggleEncryptedHabitLog", "A", [habitId |-> "h3", date |-> "2026-01-20"], 9)>>

ForeignKey == randomBytes(KEY_LENGTH, 99, 0)

CorruptionKinds == {"foreign", "malformed", "nonce"}

\* A row as another account's key sealed it, with a ciphertext that is not
\* hex text, or with another nonce than the one it was sealed with.
Corrupt(row, kind) ==
  CASE kind = "foreign" ->
         [row EXCEPT !.ciphertext = bytesToHex([row.ciphertext.hexOf EXCEPT !.key = ForeignKey])]
    [] kind = "malformed" -> [row EXCEPT !.ciphertext = Str("zz")]
    [] kind = "nonce" -> [row EXCEPT !.nonce = Str("")]

CorruptRows(rows, at, kind) ==
  [i \in 1..Len(rows) |-> IF i \in at THEN Corrupt(rows[i], kind) ELSE rows[i]]

InitForeignRows ==
  \E base \in {ApplyCalls(FreshState, ThreeRowsEach)} :
    \E at \in SUBSET (1..3), kind \in CorruptionKinds :
      StartIn([base EXCEPT !.remote.entries = CorruptRows(@, at, kind),
                           !.remote.habits = CorruptRows(@, at, kind),
                           !.remote.habit_logs = CorruptRows(@, at, kind)],
              MaxForeignCalls)

NextForeignRows ==
  \/ LoadEncryptedEntriesForMonth({"A"})
  \/ LoadEncryptedHabits({"A"})
  \/ LoadEncryptedHabitLogs({"A"})
  \/ Lock({"A"})
  \/ TryRestoreFromCache({"A"})

SpecForeignRows == InitForeignRows /\ [][NextForeignRows]_vars

\* The rows the remote store answers the load c with.
Batch(c) ==
  LET monthBucket == generateMonthBucket(mem[c.dev].bucketKey,
                                         YearMonth(c.args.year, c.args.month))
  IN CASE c.op = "loadEncryptedEntriesForMonth" ->
            Matching(remote.entries, [owner_id |-> UserId, month_bucket |-> monthBucket])
       [] c.op = "loadEncryptedHabits" -> Matching(remote.habits, [owner_id |-> UserId])
       [] c.op = "loadEncryptedHabitLogs" ->
            Matching(remote.habit_logs, [owner_id |-> UserId, month_bucket |-> monthBucket])

Decrypts(row, dev) ==
  ~IsThrow(decryptJson(row.ciphertext, mem[dev].masterKey, row.nonce))

\* What the load c makes of one row that decrypts.
ContentOf(c, row) ==
  LET payload == decryptJson(row.ciphertext, mem[c.dev].masterKey, row.nonce)
  IN CASE c.op = "loadEncryptedEntriesForMonth" -> EntriesOfPayload(row, payload)
       [] c.op = "loadEncryptedHabits" ->
            <<[id |-> payload.id, name |-> payload.name, createdAt |-> payload.createdAt]>>
       [] c.op = "loadEncryptedHabitLogs" ->
            <<[habitId |-> payload.habitId, date |-> payload.date,
               completed |-> payload.completed]>>

\* C20: a load made UNLOCKED whose remote calls succeed returns, whatever
\* rows of its batch fail to decrypt, and what it returns contains what
\* every row of the batch that decrypts holds.
C20_UndecryptableRowsAreSkipped ==
  (/\ last.op \in LoadOps
   /\ last.status # "killed"
   /\ ~Locked(last.dev)
   /\ ~last.remoteFailed)
  => /\ last.status = "returned"
     /\ \A i \in 1..Len(Batch(last)) :
          Decrypts(Batch(last)[i], last.dev)
          => \A j \in 1..Len(ContentOf(last, Batch(last)[i])) :
               Contains(last.ret, ContentOf(last, Batch(last)[i])[j])

C20_Witness ==
  /\ last.op = "loadEncryptedEntriesForMonth"
  /\ last.status = "returned"
  /\ ~Locked(last.dev)
  /\ ~last.remoteFailed
  /\ \E i \in 1..Len(Batch(last)), j \in 1..Len(Batch(last)) :
       /\ i < j
       /\ ~Decrypts(Batch(last)[i], last.dev)
       /\ Decrypts(Batch(last)[j], last.dev)
  /\ last.ret # <<>>

(***************************************************************************)
(* Loads of batches that hold rows in the legacy single-entry format       *)
(***************************************************************************)
\* Device A writes one day with one entry and one day with two.
MultiEntryRows ==
  <<SetupOnA,
    QuietCall("saveEncryptedEntry", "A", [entry |-> EntryOf("e1", "2026-01-20")], 1),
    QuietCall("saveEncryptedEntry", "A", [entry |-> EntryOf("e2", "2026-01-21")], 2),
    QuietCall("saveEncryptedEntry", "A", [entry |-> EntryOf("e3", "2026-01-21")], 3)>>

\* LegacyEntryPayload, with and without localMediaUrls.
LegacyPayloads ==
  {[text |-> "old", date |-> "2026-01-05", createdAt |-> "t0"],
   [text |-> "old", date |-> "2026-01-05", createdAt |-> "t0",
    localMediaUrls |-> <<"file:a.jpg">>]}

\* A row of the entries table as an older version of the app wrote it.
LegacyRow(t, payload, id) ==
  LET sealed == encryptJson(payload, t.mem["A"].masterKey, 40, 0)
  IN [id |-> id, owner_id |-> UserId,
      day_bucket |-> generateDayBucket(t.mem["A"].bucketKey, payload.date),
      month_bucket |-> generateMonthBucket(t.mem["A"].bucketKey, YearMonthOf(payload.date)),
      ciphertext |-> sealed.ciphertext, nonce |-> sealed.nonce, version |-> 1]

InsertAt(seq, at, x) == SubSeq(seq, 1, at) \o <<x>> \o SubSeq(seq, at + 1, Len(seq))

InitLegacy ==
  \E base \in {ApplyCalls(FreshState, MultiEntryRows)} :
    \E payload \in LegacyPayloads, at \in 0..2 :
      StartIn([base EXCEPT !.remote.entries = InsertAt(@, at, LegacyRow(base, payload, "row-9"))],
              MaxLegacyCalls)

NextLegacy ==
  \/ LoadEncryptedEntriesForMonth({"A"})
  \/ Lock({"A"})
  \/ TryRestoreFromCache({"A"})

SpecLegacy == InitLegacy /\ [][NextLegacy]_vars

PayloadOf(row, dev) == decryptJson(row.ciphertext, mem[dev].masterKey, row.nonce)

IsMultiEntry(payload) == "entries" \in DOMAIN payload

\* What the claim says one row yields.
EntriesOfRow(row, p) ==
  IF IsMultiEntry(p)
  THEN [i \in 1..Len(p.entries) |->
          [id |-> p.entries[i].id, date |-> p.date, text |-> p.entries[i].text,
           mediaUrls |-> p.entries[i].localMediaUrls, createdAt |-> p.entries[i].createdAt]]
  ELSE <<[id |-> row.id, date |-> p.date, text |-> p.text,
          mediaUrls |-> IF "localMediaUrls" \in DOMAIN p THEN p.localMediaUrls ELSE <<>>,
          createdAt |-> p.createdAt]>>

RECURSIVE EntriesOfRows(_, _)
EntriesOfRows(rows, dev) ==
  IF rows = <<>> THEN <<>>
  ELSE EntriesOfRow(Head(rows), PayloadOf(Head(rows), dev)) \o EntriesOfRows(Tail(rows), dev)

\* C21: a load of entries made UNLOCKED whose remote calls succeed returns,
\* for a batch of rows that all decrypt, the entries of every row in the
\* order of the rows: one entry per element of a multi-entry payload, with
\* the payload's date, and one entry for a legacy payload, with the id of
\* the row and mediaUrls empty when the payload has none.
C21_BothPayloadShapesAreRead ==
  (/\ last.op = "loadEncryptedEntriesForMonth"
   /\ last.status # "killed"
   /\ ~Locked(last.dev)
   /\ ~last.remoteFailed)
  => /\ last.status = "returned"
     /\ last.ret = EntriesOfRows(Batch(last), last.dev)

C21_Witness ==
  /\ last.op = "loadEncryptedEntriesForMonth"
  /\ last.status = "returned"
  /\ ~Locked(last.dev)
  /\ ~last.remoteFailed
  /\ \E i \in 1..Len(Batch(last)), j \in 1..Len(Batch(last)) :
       /\ ~IsMultiEntry(PayloadOf(Batch(last)[i], last.dev))
       /\ IsMultiEntry(PayloadOf(Batch(last)[j], last.dev))
       /\ Len(PayloadOf(Batch(last)[j], last.dev).entries) = 2
  /\ Len(last.ret) = 4
  /\ \E k \in 1..4 : last.ret[k].id = "row-9"

(***************************************************************************)
(* The JSON round trip of encryptJson / decryptJson, on text               *)
(*                                                                         *)
(* A string is the sequence of its UTF-16 code units; a JSON value is      *)
(* [null], [bool], [num], [text], [arr] or [obj] (members in order).       *)
(***************************************************************************)
JNull     == [null |-> TRUE]
JBool(b)  == [bool |-> b]
JNum(n)   == [num |-> n]
JText(u)  == [text |-> u]
JArr(a)   == [arr |-> a]
JObj(m)   == [obj |-> m]

IsHighSurrogate(u) == u >= 55296 /\ u <= 56319
IsLowSurrogate(u)  == u >= 56320 /\ u <= 57343

At(t, i) == IF i >= 1 /\ i <= Len(t) THEN t[i] ELSE -1

HexCode(n) == IF n < 10 THEN 48 + n ELSE 87 + n

\* \uXXXX
UnicodeEscape(u) ==
  <<92, 117, HexCode(u \div 4096), HexCode((u \div 256) % 16),
    HexCode((u \div 16) % 16), HexCode(u % 16)>>

\* Mutant: QuoteJSONString that escapes nothing.
RECURSIVE QuoteUnits_raw(_, _)
QuoteUnits_raw(t, i) ==
  IF i > Len(t) THEN <<>> ELSE <<t[i]>> \o QuoteUnits_raw(t, i + 1)

\* QuoteJSONString of JSON.stringify: the quotation mark, the reverse
\* solidus, the control characters and the lone surrogates are escaped.
RECURSIVE QuoteUnits(_, _)
QuoteUnits(t, i) ==
  IF i > Len(t) THEN <<>>
  ELSE LET u == t[i]
       IN IF IsHighSurrogate(u) /\ IsLowSurrogate(At(t, i + 1))
          THEN <<u, t[i + 1]>> \o QuoteUnits(t, i + 2)
          ELSE (CASE u = 34 -> <<92, 34>>
                  [] u = 92 -> <<92, 92>>
                  [] u = 8  -> <<92, 98>>
                  [] u = 9  -> <<92, 116>>
                  [] u = 10 -> <<92, 110>>
                  [] u = 12 -> <<92, 102>>
                  [] u = 13 -> <<92, 114>>
                  [] u < 32 /\ u \notin {8, 9, 10, 12, 13} -> UnicodeEscape(u)
                  [] IsHighSurrogate(u) \/ IsLowSurrogate(u) -> UnicodeEscape(u)
                  [] OTHER -> <<u>>) \o QuoteUnits(t, i + 1)

QuoteJSONString(t) == <<34>> \o QuoteUnits(t, 1) \o <<34>>

RECURSIVE DigitCodes(_)
DigitCodes(n) == IF n < 10 THEN <<48 + n>> ELSE DigitCodes(n \div 10) \o <<48 + (n % 10)>>

\* Number::toString of an integer
NumberCodes(n) == IF n < 0 THEN <<45>> \o DigitCodes(0 - n) ELSE DigitCodes(n)

RECURSIVE JSON_stringify_text(_), SerializeItems(_, _), SerializeMembers(_, _)
JSON_stringify_text(v) ==
  CASE DOMAIN v = {"null"} -> <<110, 117, 108, 108>>
    [] DOMAIN v = {"bool"} -> IF v.bool THEN <<116, 114, 117, 101>> ELSE <<102, 97, 108, 115, 101>>
    [] DOMAIN v = {"num"}  -> NumberCodes(v.num)
    [] DOMAIN v = {"text"} -> QuoteJSONString(v.text)
    [] DOMAIN v = {"arr"}  -> <<91>> \o SerializeItems(v.arr, 1) \o <<93>>
    [] DOMAIN v = {"obj"}  -> <<123>> \o SerializeMembers(v.obj, 1) \o <<125>>

SerializeItems(a, i) ==
  IF i > Len(a) THEN <<>>
  ELSE (IF i > 1 THEN <<44>> ELSE <<>>) \o JSON_stringify_text(a[i]) \o SerializeItems(a, i + 1)

SerializeMembers(m, i) ==
  IF i > Len(m) THEN <<>>
  ELSE (IF i > 1 THEN <<44>> ELSE <<>>) \o QuoteJSONString(m[i].k) \o <<58>>
         \o JSON_stringify_text(m[i].v) \o SerializeMembers(m, i + 1)

\* JSON.parse: every parser answers [ok, v, next]; next is the position
\* after what it read.
Parsed(v, next) == [ok |-> TRUE, v |-> v, next |-> next]
NotParsed       == [ok |-> FALSE, v |-> JNull, next |-> 0]

HexDigitValue(c) ==
  IF c >= 48 /\ c <= 57 THEN c - 48
  ELSE IF c >= 97 /\ c <= 102 THEN c - 87
  ELSE IF c >= 65 /\ c <= 70 THEN c - 55
  ELSE -1

StartsWith(t, i, word) ==
  /\ i + Len(word) - 1 <= Len(t)
  /\ \A k \in 1..Len(word) : t[i + k - 1] = word[k]

\* The characters of a string literal from position i, up to its closing
\* quotation mark.
RECURSIVE ParseChars(_, _, _)
ParseChars(t, i, acc) ==
  LET c == At(t, i)
      e == At(t, i + 1)
      h == [k \in 1..4 |-> HexDigitValue(At(t, i + 1 + k))]
  IN IF c = 34 THEN Parsed(JText(acc), i + 1)
     ELSE IF c < 32 THEN NotParsed
     ELSE IF c # 92 THEN ParseChars(t, i + 1, Append(acc, c))
     ELSE IF e = 34 \/ e = 92 \/ e = 47 THEN ParseChars(t, i + 2, Append(acc, e))
     ELSE IF e = 98 THEN ParseChars(t, i + 2, Append(acc, 8))
     ELSE IF e = 116 THEN ParseChars(t, i + 2, Append(acc, 9))
     ELSE IF e = 110 THEN ParseChars(t, i + 2, Append(acc, 10))
     ELSE IF e = 102 THEN ParseChars(t, i + 2, Append(acc, 12))
     ELSE IF e = 114 THEN ParseChars(t, i + 2, Append(acc, 13))
     ELSE IF e = 117 /\ \A k \in 1..4 : h[k] >= 0
          THEN ParseChars(t, i + 6,
                          Append(acc, h[1] * 4096 + h[2] * 256 + h[3] * 16 + h[4]))
     ELSE NotParsed

RECURSIVE ParseDigits(_, _, _)
ParseDigits(t, i, n) ==
  LET c == At(t, i)
  IN IF c >= 48 /\ c <= 57 THEN ParseDigits(t, i + 1, n * 10 + (c - 48)) ELSE Parsed(JNum(n), i)

ParseNumber(t, i) ==
  LET neg == At(t, i) = 45
      from == IF neg THEN i + 1 ELSE i
      r == ParseDigits(t, from, 0)
  IN IF At(t, from) < 48 \/ At(t, from) > 57 THEN NotParsed
     ELSE IF neg THEN Parsed(JNum(0 - r.v.num), r.next) ELSE r

RECURSIVE ParseValue(_, _), ParseItems(_, _, _), ParseMembers(_, _, _)
ParseValue(t, i) ==
  LET c == At(t, i)
  IN CASE c = 110 -> IF StartsWith(t, i, <<110, 117, 108, 108>>) THEN Parsed(JNull, i + 4)
                     ELSE NotParsed
       [] c = 116 -> IF StartsWith(t, i, <<116, 114, 117, 101>>) THEN Parsed(JBool(TRUE), i + 4)
                     ELSE NotParsed
       [] c = 102 -> IF StartsWith(t, i, <<102, 97, 108, 115, 101>>)
                     THEN Parsed(JBool(FALSE), i + 5) ELSE NotParsed
       [] c = 34  -> ParseChars(t, i + 1, <<>>)
       [] c = 91  -> IF At(t, i + 1) = 93 THEN Parsed(JArr(<<>>), i + 2)
                     ELSE ParseItems(t, i + 1, <<>>)
       [] c = 123 -> IF At(t, i + 1) = 125 THEN Parsed(JObj(<<>>), i + 2)
                     ELSE ParseMembers(t, i + 1, <<>>)
       [] OTHER   -> ParseNumber(t, i)

ParseItems(t, i, acc) ==
  LET r == ParseValue(t, i)
  IN IF ~r.ok THEN NotParsed
     ELSE IF At(t, r.next) = 44 THEN ParseItems(t, r.next + 1, Append(acc, r.v))
     ELSE IF At(t, r.next) = 93 THEN Parsed(JArr(Append(acc, r.v)), r.next + 1)
     ELSE NotParsed

ParseMembers(t, i, acc) ==
  LET k == IF At(t, i) = 34 THEN ParseChars(t, i + 1, <<>>) ELSE NotParsed
      r == IF k.ok /\ At(t, k.next) = 58 THEN ParseValue(t, k.next + 1) ELSE NotParsed
      m == Append(acc, [k |-> k.v.text, v |-> r.v])
  IN IF ~r.ok THEN NotParsed
     ELSE IF At(t, r.next) = 44 THEN ParseMembers(t, r.next + 1, m)
     ELSE IF At(t, r.next) = 125 THEN Parsed(JObj(m), r.next + 1)
     ELSE NotParsed

JSON_parse_text(t) ==
  LET r == ParseValue(t, 1)
  IN IF r.ok /\ r.next = Len(t) + 1 THEN r.v ELSE Threw("SyntaxError")

\* TextEncoder.encode: UTF-8, a lone surrogate becomes U+FFFD.
RECURSIVE UTF8Encode(_, _)
UTF8Encode(t, i) ==
  IF i > Len(t) THEN <<>>
  ELSE LET u == t[i]
           cp == 65536 + (u - 55296) * 1024 + (At(t, i + 1) - 56320)
       IN IF u < 128 THEN <<u>> \o UTF8Encode(t, i + 1)
          ELSE IF u < 2048 THEN <<192 + (u \div 64), 128 + (u % 64)>> \o UTF8Encode(t, i + 1)
          ELSE IF IsHighSurrogate(u) /\ IsLowSurrogate(At(t, i + 1))
               THEN <<240 + (cp \div 262144), 128 + ((cp \div 4096) % 64),
                      128 + ((cp \div 64) % 64), 128 + (cp % 64)>> \o UTF8Encode(t, i + 2)
          ELSE IF IsHighSurrogate(u) \/ IsLowSurrogate(u)
               THEN <<239, 191, 189>> \o UTF8Encode(t, i + 1)
          ELSE <<224 + (u \div 4096), 128 + ((u \div 64) % 64), 128 + (u % 64)>>
                 \o UTF8Encode(t, i + 1)

TextEncoder_encode_text(t) == Bytes(UTF8Encode(t, 1))

IsContinuation(b) == b >= 128 /\ b <= 191

\* TextDecoder.decode without the removal of the byte order mark: a byte
\* that begins no well-formed sequence becomes U+FFFD.
RECURSIVE UTF8Decode(_, _)
UTF8Decode(b, i) ==
  IF i > Len(b) THEN <<>>
  ELSE LET b1 == b[i]
           b2 == At(b, i + 1)
           b3 == At(b, i + 2)
           b4 == At(b, i + 3)
           cp4 == (b1 - 240) * 262144 + (b2 - 128) * 4096 + (b3 - 128) * 64 + (b4 - 128)
           cp3 == (b1 - 224) * 4096 + (b2 - 128) * 64 + (b3 - 128)
       IN IF b1 < 128 THEN <<b1>> \o UTF8Decode(b, i + 1)
          ELSE IF b1 >= 194 /\ b1 <= 223 /\ IsContinuation(b2)
               THEN <<(b1 - 192) * 64 + (b2 - 128)>> \o UTF8Decode(b, i + 2)
          ELSE IF b1 >= 224 /\ b1 <= 239 /\ IsContinuation(b2) /\ IsContinuation(b3)
                  /\ cp3 >= 2048 /\ ~IsHighSurrogate(cp3) /\ ~IsLowSurrogate(cp3)
               THEN <<cp3>> \o UTF8Decode(b, i + 3)
          ELSE IF b1 >= 240 /\ b1 <= 244 /\ IsContinuation(b2) /\ IsContinuation(b3)
                  /\ IsContinuation(b4) /\ cp4 >= 65536 /\ cp4 <= 1114111
               THEN <<55296 + ((cp4 - 65536) \div 1024), 56320 + ((cp4 - 65536) % 1024)>>
                      \o UTF8Decode(b, i + 4)
          ELSE <<65533>> \o UTF8Decode(b, i + 1)

\* new TextDecoder().decode: ignoreBOM is false, a leading U+FEFF is removed.
TextDecoder_decode_text(bytes) ==
  LET t == UTF8Decode(bytes.bytes, 1)
  IN IF At(t, 1) = 65279 THEN Tail(t) ELSE t

encryptString_text(plaintext, key, rnd, k) ==
  LET e == encrypt(TextEncoder_encode_text(plaintext), key, rnd, k)
  IN [ciphertext |-> bytesToHex(e.ciphertext), nonce |-> bytesToHex(e.nonce)]

decryptString_text(ciphertextHex, key, nonceHex) ==
  LET plaintext == decrypt(hexToBytes(ciphertextHex), key, hexToBytes(nonceHex))
  IN IF IsThrow(plaintext) THEN plaintext ELSE JText(TextDecoder_decode_text(plaintext))

encryptJson_text(data, key, rnd, k) ==
  encryptString_text(JSON_stringify_text(data), key, rnd, k)

decryptJson_text(ciphertextHex, key, nonceHex) ==
  LET json == decryptString_text(ciphertextHex, key, nonceHex)
  IN IF IsThrow(json) THEN json ELSE JSON_parse_text(json.text)

\* The code units the strings of the payloads are made of: the quotation
\* mark, the reverse solidus, two control characters, a letter, characters
\* of two and three bytes, the halves of a surrogate pair, U+FEFF.
TextUnits == {34, 92, 1, 10, 97, 233, 8364, 55357, 56832, 65279}

RECURSIVE TextsOfLen(_)
TextsOfLen(n) ==
  IF n = 0 THEN {<<>>} ELSE {Append(t, u) : t \in TextsOfLen(n - 1), u \in TextUnits}

Texts == UNION {TextsOfLen(n) : n \in 0..MaxTextLen}

Scalars ==
  {JNull, JBool(TRUE), JBool(FALSE), JNum(0), JNum(0 - 12), JNum(305)}
    \cup {JText(t) : t \in Texts}

MemberNames == {<<97>>, <<34, 92>>, <<65279>>}

\* The payloads: objects and arrays of scalars, and one nesting of them.
Payloads ==
  {JObj(<<>>), JArr(<<>>)}
    \cup {JObj(<<[k |-> k, v |-> x]>>) : k \in MemberNames, x \in Scalars}
    \cup {JArr(<<x, JNum(7)>>) : x \in Scalars}
    \cup {JObj(<<[k |-> <<97>>, v |-> JArr(<<x, JObj(<<[k |-> <<98>>, v |-> x]>>)>>)],
                 [k |-> <<34, 92>>, v |-> JBool(FALSE)]>>) : x \in Scalars}

Keys32 == {randomBytes(KEY_LENGTH, 16, 0), randomBytes(KEY_LENGTH, 171, 0)}

InitRoundTrip ==
  \E data \in Payloads, key \in Keys32 :
    StartIn([FreshState EXCEPT !.last.args = [data |-> data, key |-> key]], 2)

EncryptJson ==
  /\ last.op = "none"
  /\ \E rnd \in RandomSeeds :
       last' = [last EXCEPT !.n = 1, !.op = "encryptJson",
                            !.ret = encryptJson_text(last.args.data, last.args.key, rnd, 0)]
  /\ budget' = budget - 1
  /\ UNCHANGED <<mem, secureStore, asyncStorage, remote, history, generated, syncStart, running>>

DecryptJson ==
  /\ last.op = "encryptJson"
  /\ last' = [last EXCEPT !.n = 2, !.op = "decryptJson",
                          !.ret = decryptJson_text(last.ret.ciphertext, last.args.key,
                                                   last.ret.nonce)]
  /\ budget' = budget - 1
  /\ UNCHANGED <<mem, secureStore, asyncStorage, remote, history, generated, syncStart, running>>

NextRoundTrip == EncryptJson \/ DecryptJson

SpecRoundTrip == InitRoundTrip /\ [][NextRoundTrip]_vars

\* C22: decryptJson applied, with the key K, to the ciphertext and the
\* nonce that encryptJson(P, K) returned gives P back.
C22_JsonRoundTrip ==
  last.op = "decryptJson" => last.ret = last.args.data

C22_Witness ==
  /\ last.op = "decryptJson"
  /\ last.args.data = JObj(<<[k |-> <<34, 92>>, v |-> JText(<<55357, 34>>)]>>)
  /\ last.ret = last.args.data

(***************************************************************************)
(* The event loop: calls in flight, interleaved at their awaits            *)
(***************************************************************************)
\* The state after the step r of a call in flight; a call that has ended
\* is observed like a call that ran alone.
Stepped(i, r, frames) ==
  /\ mem' = r.g.mem
  /\ secureStore' = r.g.secureStore
  /\ asyncStorage' = r.g.asyncStorage
  /\ remote' = r.g.remote
  /\ running' = [frames EXCEPT ![i] = r.f]
  /\ IF r.f.status = "running"
     THEN UNCHANGED <<last, history>>
     ELSE /\ last' = Observed(r.f, Len(history) + 1)
          /\ history' = Append(history, Logged(r.f, r.f))
  /\ UNCHANGED <<generated, syncStart>>

\* A call of an async function runs up to its first await.
Begin(op, dev, args, env) ==
  /\ budget > 0
  /\ budget' = budget - 1
  /\ \E r \in {Step(World(Current), NewFrame(op, dev, args, env))} :
       Stepped(Len(running) + 1, r, Append(running, r.f))

\* The event loop resumes one of the calls in flight up to its next await.
Advance ==
  /\ \E i \in 1..Len(running) :
       /\ running[i].status = "running"
       /\ \E r \in {Step(World(Current), running[i])} : Stepped(i, r, running)
  /\ UNCHANGED budget

AllSettled ==
  /\ budget = 0
  /\ \A i \in 1..Len(running) : running[i].status # "running"

BeginToggleEncryptedHabitLog(devs, habitIds, dates) ==
  \E dev \in devs, habitId \in habitIds, date \in dates :
    Begin("toggleEncryptedHabitLog", dev, [habitId |-> habitId, date |-> date],
          [fail |-> {}, rnd |-> budget, fuel |-> -1])

NextToggles ==
  \/ BeginToggleEncryptedHabitLog({"A"}, HabitIds, {"2026-01-20"})
  \/ Advance

InitToggles == StartAfter(<<SetupOnA>>, MaxInFlight)

SpecToggles == InitToggles /\ [][NextToggles]_vars

\* The toggles in flight are of different habits.
DifferentHabits ==
  \A i \in 1..Len(running), j \in 1..Len(running) :
    i # j => running[i].args.habitId # running[j].args.habitId

\* C23: once toggles of different habits, started on a cache without logs
\* and interleaved in any way, have all completed, the local cache has a
\* completed log of each and the remote store a row of each whose payload
\* says completed.
C23_ConcurrentTogglesDoNotInterfere ==
  (AllSettled /\ DifferentHabits)
  => \A i \in 1..Len(running) :
       LET habitId == running[i].args.habitId
           date == running[i].args.date
       IN /\ Contains(LocalLogs("A"), [habitId |-> habitId, date |-> date, completed |-> TRUE])
          /\ \E k \in 1..Len(LogRows(habitId, date)) :
               RowPayload(LogRows(habitId, date)[k]).completed

(***************************************************************************)
(* lock() and clearAll() while a save, a toggle or a load is in flight     *)
(***************************************************************************)
NoFailure == [fail |-> {}, rnd |-> budget, fuel |-> -1]

BeginSaveEncryptedEntry(devs, entries) ==
  \E dev \in devs, e \in entries : Begin("saveEncryptedEntry", dev, [entry |-> e], NoFailure)

BeginLoadEncryptedEntriesForMonth(devs) ==
  \E dev \in devs :
    Begin("loadEncryptedEntriesForMonth", dev, [year |-> 2026, month |-> 1], NoFailure)

BeginClearAll(devs) ==
  \E dev \in devs : Begin("clearAll", dev, NoArgs, NoFailure)

NextLockInFlight ==
  \/ BeginSaveEncryptedEntry({"A"}, {EntryOf("e1", "2026-01-20")})
  \/ BeginToggleEncryptedHabitLog({"A"}, {"h1"}, {"2026-01-20"})
  \/ BeginLoadEncryptedEntriesForMonth({"A"})
  \/ BeginClearAll({"A"})
  \/ Lock({"A"})
  \/ Advance

SpecLockInFlight == StartAfter(<<SetupOnA>>, MaxInFlight) /\ [][NextLockInFlight]_vars

FacadeOps == {"saveEncryptedEntry", "toggleEncryptedHabitLog", "loadEncryptedEntriesForMonth"}

\* C24: whatever lock() or clearAll() does between the awaits of a save, a
\* toggle or a load, the operation never ends with the error of
\* getMasterKey / getBucketKey.
C24_LockInFlightNeverThrows ==
  \A i \in 1..Len(running) :
    running[i].op \in FacadeOps => running[i].err # "KeyringLocked"

(***************************************************************************)
(* The order of the local write and the remote calls of one write          *)
(***************************************************************************)
\* No call is in flight.
Idle == \A i \in 1..Len(running) : running[i].status # "running"

EntriesOfOneDay == {EntryOf(id, "2026-01-20") : id \in EntryIds}

BeginSaveEncryptedHabits(devs, lists) ==
  \E dev \in devs, habits \in lists :
    Begin("saveEncryptedHabits", dev, [habits |-> habits], NoFailure)

NextLocalFirst ==
  \/ Idle /\ BeginSaveEncryptedEntry({"A"}, EntriesOfOneDay)
  \/ Idle /\ BeginSaveEncryptedHabits({"A"}, HabitLists)
  \/ Idle /\ BeginToggleEncryptedHabitLog({"A"}, {"h1"}, {"2026-01-20"})
  \/ Advance

SpecLocalFirst == StartAfter(<<SetupOnA>>, MaxLocalFirstCalls) /\ [][NextLocalFirst]_vars

\* The call i has issued a remote call and has not ended.
RemoteIssued(i) == running[i].status = "running" /\ running[i].nRemote > 0

\* The number of the calls begun up to call i that toggled the same log.
TogglesUpTo(i) ==
  Cardinality({j \in 1..i : /\ running[j].op = "toggleEncryptedHabitLog"
                            /\ running[j].args = running[i].args})

\* storage.saveDailyEntry refused the entry: its id is new and its day
\* already has two entries.
RefusedLocally(entry) ==
  /\ \A k \in 1..Len(LocalEntries("A")) : LocalEntries("A")[k].id # entry.id
  /\ Len(ForDate(LocalEntries("A"), entry.date)) >= 2

\* The local cache holds what the call i was to write.
LocalWriteDone(i) ==
  LET f == running[i]
  IN CASE f.op = "saveEncryptedEntry" -> Contains(LocalEntries("A"), f.args.entry)
       [] f.op = "saveEncryptedHabits" -> LocalHabits("A") = f.args.habits
       [] f.op = "toggleEncryptedHabitLog" ->
            Contains(LocalLogs("A"), [habitId |-> f.args.habitId, date |-> f.args.date,
                                      completed |-> TogglesUpTo(i) % 2 = 1])
       [] OTHER -> TRUE

\* C25 as claimed: whenever a save or a toggle has issued a remote call,
\* the local cache already holds what the call writes.
C25_LocalWriteBeforeRemote ==
  \A i \in 1..Len(running) : RemoteIssued(i) => LocalWriteDone(i)

\* C25: whenever a save or a toggle has issued a remote call, its call of
\* the local storage has already returned: the local cache holds what the
\* call writes, or the entry is one that storage.saveDailyEntry refuses.
C25_LocalStorageCallBeforeRemote ==
  \A i \in 1..Len(running) :
    RemoteIssued(i) =>
      \/ LocalWriteDone(i)
      \/ running[i].op = "saveEncryptedEntry" /\ RefusedLocally(running[i].args.entry)

\* Each of the three writes is waiting for its first remote call, the cache
\* written; the third is a toggle back to not completed.
C25_Witness ==
  /\ Len(running) = 3
  /\ running[1].op = "saveEncryptedEntry"
  /\ running[2].op = "toggleEncryptedHabitLog"
  /\ running[3].op = "toggleEncryptedHabitLog"
  /\ RemoteIssued(3) /\ running[3].nRemote = 1 /\ LocalWriteDone(3)
  /\ running[1].nRemote > 0

(***************************************************************************)
(* What a sync leaves of the local cache                                   *)
(***************************************************************************)
\* The first sync of the behaviour has just returned.
FirstSyncReturned ==
  /\ last.op = "syncLocalDataToCloud"
  /\ last.status = "returned"
  /\ Cardinality({i \in 1..Len(history) : history[i].op = "syncLocalDataToCloud"}) = 1

\* C26: after a sync the local cache of habits, entries and habit logs,
\* the completed flag of every log included, is what it was when the sync
\* began.
C26_SyncLeavesLocalCache ==
  FirstSyncReturned =>
    /\ LocalHabits("A") = ParsedOrEmpty(syncStart.asyncStorage["A"][STORAGE_KEYS.HABITS])
    /\ LocalEntries("A") = ParsedOrEmpty(syncStart.asyncStorage["A"][STORAGE_KEYS.ENTRIES])
    /\ LocalLogs("A") = ParsedOrEmpty(syncStart.asyncStorage["A"][STORAGE_KEYS.LOGS])

(***************************************************************************)
(* The two keys in memory                                                  *)
(***************************************************************************)
\* C27: between the calls of the keyring, the master key is in memory
\* exactly when the bucket key is, so that getBucketKey does not throw
\* while isKeyringUnlocked is true.
C27_KeysPresentTogether ==
  \A dev \in Devices :
    /\ (mem[dev].masterKey # None) <=> (mem[dev].bucketKey # None)
    /\ isKeyringUnlocked(World(Current), dev) => ~IsThrow(getBucketKey(World(Current), dev))

(***************************************************************************)
(* Sign-out while the auth-state listener restores the keyring             *)
(***************************************************************************)
BeginTryRestoreFromCache(devs) ==
  \E dev \in devs : Begin("tryRestoreFromCache", dev, NoArgs, NoFailure)

NextSignOut ==
  \/ BeginTryRestoreFromCache(Devices)
  \/ BeginClearAll(Devices)
  \/ Advance

SpecSignOut == StartAfter(<<SetupOnA, UnlockOnB>>, MaxInFlight) /\ [][NextSignOut]_vars

Began(op, dev) ==
  \E i \in 1..Len(running) : running[i].op = op /\ running[i].dev = dev

\* C28: once a clearAll and a restore that overlapped it in any way have
\* both completed on a device, its keyring is locked and no key is in its
\* memory.
C28_SignOutWinsOverRestore ==
  \A dev \in Devices :
    (AllSettled /\ Began("clearAll", dev) /\ Began("tryRestoreFromCache", dev))
    => /\ Locked(dev)
       /\ mem[dev].bucketKey = None

(***************************************************************************)
(* Two saves of the habit list in flight                                   *)
(***************************************************************************)
NextHabitsInFlight ==
  \/ BeginSaveEncryptedHabits({"A"}, HabitLists)
  \/ Advance

SpecHabitsInFlight == StartAfter(<<SetupOnA>>, MaxInFlight) /\ [][NextHabitsInFlight]_vars

\* The habits the remote table decrypts to, in the order of its rows.
RemoteHabits == DecryptHabits(remote.habits, generated.masterKey)

\* The two lists hold the same habits the same number of times.
SameHabits(xs, ys) ==
  \A h \in {xs[i] : i \in 1..Len(xs)} \cup {ys[i] : i \in 1..Len(ys)} :
    Cardinality({i \in 1..Len(xs) : xs[i] = h}) = Cardinality({i \in 1..Len(ys) : ys[i] = h})

\* C29: once two saves of habit lists that overlapped in any way have both
\* completed, the remote habits table decrypts to the list of one of them.
C29_OverlappingSavesLeaveOneList ==
  (AllSettled /\ Len(running) = 2)
  => \E i \in 1..2 : SameHabits(RemoteHabits, running[i].args.habits)

(***************************************************************************)
(* Reading back an entry saved locally, across lock and unlock             *)
(***************************************************************************)
NextReadBack ==
  \/ SaveEncryptedEntry({"A"}, {EntryOf("e1", "2026-01-20")})
  \/ Unlock({"A"})
  \/ TryRestoreFromCache({"A"})
  \/ Lock({"A"})
  \/ LoadEncryptedEntriesForMonth({"A"})

InitReadBack ==
  \/ StartAfter(<<SetupOnA>>, MaxReadBackCalls)
  \/ StartAfter(<<SetupOnA, LockA>>, MaxReadBackCalls)

SpecReadBack == InitReadBack /\ [][NextReadBack]_vars

\* The last call was a load of the month of d that returned.
LoadedMonthOf(d) ==
  /\ last.op = "loadEncryptedEntriesForMonth"
  /\ last.status = "returned"
  /\ EntriesOfMonth(<<EntryOf("e1", d)>>, last.args.year, last.args.month) # <<>>

\* C30: an entry that a save stored in the local cache is among the entries
\* a later load of its month returns, whether the keyring is locked or
\* unlocked at the load.
C30_SavedEntryIsLoaded ==
  \A e \in {EntryOf("e1", "2026-01-20")} :
    (LoadedMonthOf(e.date) /\ Contains(LocalEntries("A"), e)) => Contains(last.ret, e)

====
